---- MODULE Spec2Model ----
(***************************************************************************)
(* Multi-account credential pool and dispatch engine of clawdbot           *)
(* (Antigravity accounts): the account pool (AntigravityAccountManager),   *)
(* the account store, the credential broker (getAccountResultFromManager)  *)
(* and the retry loop of runEmbeddedPiAgent.                               *)
(*                                                                         *)
(* Time is the value of Date.now() in milliseconds; it is the variable     *)
(* now and advances only by the action Tick, so one handler runs at one    *)
(* instant.  An optional number that is undefined is Absent; an optional   *)
(* string that is undefined is Undefined; an access token is a tuple and   *)
(* the undefined or empty token is NoAccess.                               *)
(***************************************************************************)
EXTENDS Integers, Sequences, FiniteSets, TLC

VARIABLES
    now,                      \* Date.now()
    accountManagerInstance,   \* the module-level singleton pool, or NoManager
    file,                     \* antigravity-accounts.json, or NoFile
    nextOid,                  \* identity given to the next account object created
    brk,                      \* per session: the credential broker call in progress
    run,                      \* per session: the dispatch run (runEmbeddedPiAgent)
    lastCall,                 \* the pool operation just performed and what it returned
    markedUntil,              \* history: reset time written by the latest markRateLimited
    maxMarkedUntil,           \* history: largest reset time any markRateLimited has written
    rrHist,                   \* history: per family, the round-robin picks made since
                              \* its candidate pool last changed
    progress,                 \* history: per session, flips with every step its run
                              \* was waiting for
    managerCalls,             \* the calls of getAntigravityAccountManager in progress
                              \* and the instances handed out since the last reset
    nextCheckAt,              \* per session: when the activity checker's interval
                              \* timer is next due, or Absent when none is running
    waiters                   \* per session: the waiter of waitForEmbeddedPiRunEnd
                              \* and what its promise was resolved with

vars == <<now, accountManagerInstance, file, nextOid, brk, run, lastCall,
          markedUntil, maxMarkedUntil, rrHist, progress, managerCalls, nextCheckAt, waiters>>

(***************************************************************************)
(* Program constants                                                       *)
(***************************************************************************)
MAX_ACCOUNTS == 10
REFRESH_FAILURE_COOLDOWN_MS == 60000
SILENT_RATE_LIMIT_MS == 120000
ANTIGRAVITY_ACTIVITY_TIMEOUT_MS == 30000
\* a check interval of 10 s
SlowCheckInterval == 2 * 5000
ANTIGRAVITY_ACTIVITY_CHECK_INTERVAL_MS == 5000
ANTIGRAVITY_MAX_RETRIES == 3
TOKEN_REFRESH_TIMEOUT_MS == 15000
STORAGE_VERSION == 2

(***************************************************************************)
(* Bounds of the model                                                     *)
(***************************************************************************)
MaxTicks == 7           \* now stays <= MaxTicks * TickUnit
PoolTicks == 4          \* the same, where no request is dispatched
MaxRotation == 6        \* selections stop once rotationIndex reaches it
PoolRotation == 4       \* the same, where the clock also advances
MaxOid == 4             \* account objects ever created
MaxRuns == 1            \* dispatch runs started per session
MaxAborts == 2          \* calls of session.abort() counted per attempt
StoreAccounts == 2      \* accounts of the pool the accounts commands work on
StoreRotation == 2      \* selections stop there once rotationIndex reaches it

TickUnit == ANTIGRAVITY_ACTIVITY_TIMEOUT_MS
MaxNow == MaxTicks * TickUnit

Families == {"claude", "gemini-flash", "gemini-pro"}
Tiers == {"free", "paid"}
Modes == {"sticky", "round-robin"}
Sessions == {1, 2}
Oids == 1..MaxOid

Absent == -1
Undefined == "undefined"
NoAccess == <<>>
NoOid == 0
NoManager == [none |-> TRUE]
NoFile == [none |-> TRUE]
NoLimits == [f \in Families |-> Absent]

Min(S) == CHOOSE x \in S : \A y \in S : x <= y
Max(S) == CHOOSE x \in S : \A y \in S : x >= y
Range(s) == {s[i] : i \in DOMAIN s}

(***************************************************************************)
(* getModelFamily: a model identifier is the sequence of its lower-cased   *)
(* words; includes(w) is a substring test for a word.                      *)
(***************************************************************************)
ModelIds == {<<"claude", "sonnet">>, <<"gemini", "flash">>, <<"gemini", "pro">>,
             <<"claude", "flash">>}

getModelFamily(modelId) ==
    IF "claude" \in Range(modelId) THEN "claude"
    ELSE IF "flash" \in Range(modelId) THEN "gemini-flash"
    ELSE "gemini-pro"

(***************************************************************************)
(* Rate-limit bookkeeping of one account                                   *)
(***************************************************************************)
\* a test that still counts the account as limited at its reset time
isRateLimitedForFamilyInclusive(account, family, t) ==
    LET resetTime == account.rateLimitResetTimes[family]
    IN  resetTime # Absent /\ t <= resetTime

isRateLimitedForFamily(account, family, t) ==
    LET resetTime == account.rateLimitResetTimes[family]
    IN  resetTime # Absent /\ t < resetTime

clearExpiredRateLimits(account, t) ==
    [account EXCEPT !.rateLimitResetTimes =
        [key \in Families |->
            IF @[key] # Absent /\ t >= @[key] THEN Absent ELSE @[key]]]

(***************************************************************************)
(* The pool: m is the manager object                                       *)
(*   [accounts, currentAccountIndex, rotationIndex].                       *)
(* An account object is referred to by its oid; PosOf is its place in      *)
(* m.accounts (0 when the object is no longer in the pool).                *)
(***************************************************************************)
PosOf(m, oid) ==
    IF \E i \in DOMAIN m.accounts : m.accounts[i].oid = oid
    THEN CHOOSE i \in DOMAIN m.accounts : m.accounts[i].oid = oid
    ELSE 0

InPool(m, oid) == PosOf(m, oid) # 0

Acct(m, oid) == m.accounts[PosOf(m, oid)]

OidsOf(s) == {s[i].oid : i \in DOMAIN s}

getCurrentAccount(m) ==
    IF m.currentAccountIndex >= 0 /\ m.currentAccountIndex < Len(m.accounts)
    THEN m.accounts[m.currentAccountIndex + 1].oid
    ELSE NoOid

getAccountCount(m) == Len(m.accounts)

markSwitched(m, oid, reason) ==
    LET p == PosOf(m, oid)
    IN  [m EXCEPT !.accounts[p].lastSwitchReason = reason,
                  !.currentAccountIndex = m.accounts[p].index]

\* a candidate pool that prefers the paid accounts to the confirmed ones
CandidatePoolPaidFirst(m, family, t) ==
    LET available == SelectSeq(m.accounts, LAMBDA a :
            ~isRateLimitedForFamily(a, family, t) /\ a.hasAccess # "false")
        paidAvailable == SelectSeq(available, LAMBDA a : a.tier = "paid")
        confirmedAccess == SelectSeq(available, LAMBDA a : a.hasAccess = "true")
        paidConfirmed == SelectSeq(confirmedAccess, LAMBDA a : a.tier = "paid")
    IN  IF Len(available) = 0 THEN <<>>
        ELSE IF Len(paidConfirmed) > 0 THEN paidConfirmed
        ELSE IF Len(paidAvailable) > 0 THEN paidAvailable
        ELSE IF Len(confirmedAccess) > 0 THEN confirmedAccess
        ELSE available

\* The candidate pool of getNextForFamily: the accounts pool[...] is picked from.
CandidatePool(m, family, t) ==
    LET available == SelectSeq(m.accounts, LAMBDA a :
            ~isRateLimitedForFamily(a, family, t) /\ a.hasAccess # "false")
        paidAvailable == SelectSeq(available, LAMBDA a : a.tier = "paid")
        confirmedAccess == SelectSeq(available, LAMBDA a : a.hasAccess = "true")
        paidConfirmed == SelectSeq(confirmedAccess, LAMBDA a : a.tier = "paid")
    IN  IF Len(available) = 0 THEN <<>>
        ELSE IF Len(confirmedAccess) > 0
             THEN (IF Len(paidConfirmed) > 0 THEN paidConfirmed ELSE confirmedAccess)
             ELSE (IF Len(paidAvailable) > 0 THEN paidAvailable ELSE available)

\* a selection that always takes the first candidate
getNextForFamilyFirst(m, family, t) ==
    LET pool == CandidatePool(m, family, t)
    IN  IF Len(pool) = 0 THEN [m |-> m, ret |-> NoOid]
        ELSE LET account == pool[1]
                 p == PosOf(m, account.oid)
             IN  [m |-> [m EXCEPT !.rotationIndex = @ + 1,
                                  !.accounts[p].lastUsed = t],
                  ret |-> account.oid]

getNextForFamily(m, family, t) ==
    LET pool == CandidatePool(m, family, t)
    IN  IF Len(pool) = 0 THEN [m |-> m, ret |-> NoOid]
        ELSE LET account == pool[(m.rotationIndex % Len(pool)) + 1]
                 p == PosOf(m, account.oid)
             IN  [m |-> [m EXCEPT !.rotationIndex = @ + 1,
                                  !.accounts[p].lastUsed = t],
                  ret |-> account.oid]

\* sticky selection without the tier-upgrade check
getCurrentOrNextNoUpgrade(m, family, t) ==
    LET m1 == [m EXCEPT !.accounts =
                   [i \in DOMAIN @ |-> clearExpiredRateLimits(@[i], t)]]
        current == getCurrentAccount(m1)
        cur == Acct(m1, current)
        next == getNextForFamily(m1, family, t)
    IN  IF current # NoOid /\ ~isRateLimitedForFamily(cur, family, t)
        THEN [m |-> [m1 EXCEPT !.accounts[PosOf(m1, current)].lastUsed = t],
              ret |-> current]
        ELSE IF next.ret # NoOid
             THEN [m |-> [next.m EXCEPT !.currentAccountIndex =
                                            Acct(next.m, next.ret).index],
                   ret |-> next.ret]
             ELSE next

getCurrentOrNextForFamily(m, family, t) ==
    LET m1 == [m EXCEPT !.accounts =
                   [i \in DOMAIN @ |-> clearExpiredRateLimits(@[i], t)]]
        current == getCurrentAccount(m1)
        cur == Acct(m1, current)
        betterTierAvailable ==
            /\ cur.tier # "paid"
            /\ \E i \in DOMAIN m1.accounts :
                  /\ m1.accounts[i].tier = "paid"
                  /\ ~isRateLimitedForFamily(m1.accounts[i], family, t)
        next == getNextForFamily(m1, family, t)
    IN  IF current # NoOid /\ ~isRateLimitedForFamily(cur, family, t)
           /\ ~betterTierAvailable
        THEN [m |-> [m1 EXCEPT !.accounts[PosOf(m1, current)].lastUsed = t],
              ret |-> current]
        ELSE IF next.ret # NoOid
             THEN [m |-> [next.m EXCEPT !.currentAccountIndex =
                                            Acct(next.m, next.ret).index],
                   ret |-> next.ret]
             ELSE next

selectAccountForFamily(m, family, mode, t) ==
    IF mode = "round-robin" /\ Len(m.accounts) > 1
    THEN LET next == getNextForFamily(m, family, t)
         IN  IF next.ret # NoOid
             THEN [m |-> markSwitched(next.m, next.ret, "rotation"), ret |-> next.ret]
             ELSE next
    ELSE getCurrentOrNextForFamily(m, family, t)

\* a mark that limits the account for every family
markRateLimitedAllFamilies(m, oid, retryAfterMs, family, t) ==
    IF ~InPool(m, oid) THEN m
    ELSE [m EXCEPT !.accounts[PosOf(m, oid)].rateLimitResetTimes =
                       [g \in Families |-> t + retryAfterMs],
                   !.accounts[PosOf(m, oid)].lastSwitchReason = "rate-limit"]

\* a mark that stores the duration instead of the reset time
markRateLimitedNoClock(m, oid, retryAfterMs, family, t) ==
    IF ~InPool(m, oid) THEN m
    ELSE [m EXCEPT !.accounts[PosOf(m, oid)].rateLimitResetTimes[family] =
                       retryAfterMs,
                   !.accounts[PosOf(m, oid)].lastSwitchReason = "rate-limit"]

markRateLimited(m, oid, retryAfterMs, family, t) ==
    IF ~InPool(m, oid) THEN m
    ELSE [m EXCEPT !.accounts[PosOf(m, oid)].rateLimitResetTimes[family] =
                       t + retryAfterMs,
                   !.accounts[PosOf(m, oid)].lastSwitchReason = "rate-limit"]

markInvalidCredentials(m, oid, error, t) ==
    IF ~InPool(m, oid) THEN m
    ELSE [m EXCEPT !.accounts[PosOf(m, oid)].hasAccess = "false",
                   !.accounts[PosOf(m, oid)].lastError = error,
                   !.accounts[PosOf(m, oid)].lastErrorAt = t,
                   !.accounts[PosOf(m, oid)].lastSwitchReason = "invalid-creds"]

markValidCredentials(m, oid) ==
    IF ~InPool(m, oid) THEN m
    ELSE [m EXCEPT !.accounts[PosOf(m, oid)].hasAccess = "true",
                   !.accounts[PosOf(m, oid)].lastError = Undefined,
                   !.accounts[PosOf(m, oid)].lastErrorAt = Absent]

\* updateAccount(account, access, expires): the two-argument use of the broker.
updateAccount(m, oid, access, expires) ==
    IF ~InPool(m, oid) THEN m
    ELSE [m EXCEPT !.accounts[PosOf(m, oid)].access =
                       IF access # NoAccess THEN access ELSE @,
                   !.accounts[PosOf(m, oid)].expires =
                       IF expires # Absent THEN expires ELSE @]

\* a wait that takes the latest reset time instead of the earliest
getMinWaitTimeForFamilyMax(m, family, t) ==
    LET m1 == [m EXCEPT !.accounts =
                   [i \in DOMAIN @ |-> clearExpiredRateLimits(@[i], t)]]
        available == SelectSeq(m1.accounts, LAMBDA a :
                         ~isRateLimitedForFamily(a, family, t))
        waitTimes == {Max({0, m1.accounts[i].rateLimitResetTimes[family] - t}) :
                         i \in {j \in DOMAIN m1.accounts :
                                  m1.accounts[j].rateLimitResetTimes[family] # Absent}}
    IN  [m |-> m1,
         ret |-> IF Len(available) > 0 THEN 0
                 ELSE IF waitTimes # {} THEN Max(waitTimes) ELSE 0]

getMinWaitTimeForFamily(m, family, t) ==
    LET m1 == [m EXCEPT !.accounts =
                   [i \in DOMAIN @ |-> clearExpiredRateLimits(@[i], t)]]
        available == SelectSeq(m1.accounts, LAMBDA a :
                         ~isRateLimitedForFamily(a, family, t))
        waitTimes == {Max({0, m1.accounts[i].rateLimitResetTimes[family] - t}) :
                         i \in {j \in DOMAIN m1.accounts :
                                  m1.accounts[j].rateLimitResetTimes[family] # Absent}}
    IN  [m |-> m1,
         ret |-> IF Len(available) > 0 THEN 0
                 ELSE IF waitTimes # {} THEN Min(waitTimes) ELSE 0]

(***************************************************************************)
(* Account store.  The file holds the JSON text of an AccountStorage value *)
(* or is missing.  JSON.stringify leaves out every property whose value is *)
(* undefined, so the text of an object is a function on the keys that have *)
(* a value; reading a key the parsed object lacks yields undefined.        *)
(***************************************************************************)
AccountKeys == {"email", "tier", "refreshToken", "projectId", "addedAt", "lastUsed",
                "lastSwitchReason", "rateLimitResetTimes", "access", "expires",
                "hasAccess", "lastError", "lastErrorAt"}

\* how undefined is written for the property key
UndefinedValue(key) ==
    CASE key \in {"addedAt", "lastUsed", "expires", "lastErrorAt"} -> Absent
      [] key = "access" -> NoAccess
      [] OTHER -> Undefined

\* a text that also leaves out the properties whose value is 0
JsonStringifyTruthy(storage) ==
    [version |-> storage.version,
     accounts |-> [i \in DOMAIN storage.accounts |->
         LET acc == storage.accounts[i]
             limits == acc.rateLimitResetTimes
             kept == {k \in DOMAIN acc :
                         \/ k = "rateLimitResetTimes"
                         \/ k # "rateLimitResetTimes" /\ acc[k] # UndefinedValue(k)
                            /\ (k \in {"addedAt", "lastUsed", "expires", "lastErrorAt"}
                                   => acc[k] # 0)}
         IN  [k \in kept |->
                 IF k = "rateLimitResetTimes"
                 THEN [f \in {g \in DOMAIN limits : limits[g] # Absent} |-> limits[f]]
                 ELSE acc[k]]],
     activeIndex |-> storage.activeIndex]

\* JSON.stringify(storage, null, 2)
JsonStringify(storage) ==
    [version |-> storage.version,
     accounts |-> [i \in DOMAIN storage.accounts |->
         LET acc == storage.accounts[i]
             limits == acc.rateLimitResetTimes
             kept == {k \in DOMAIN acc :
                         \/ k = "rateLimitResetTimes"
                         \/ k # "rateLimitResetTimes" /\ acc[k] # UndefinedValue(k)}
         IN  [k \in kept |->
                 IF k = "rateLimitResetTimes"
                 THEN [f \in {g \in DOMAIN limits : limits[g] # Absent} |-> limits[f]]
                 ELSE acc[k]]],
     activeIndex |-> storage.activeIndex]

\* a file whose text is not JSON: JSON.parse throws a SyntaxError
Malformed == [malformed |-> TRUE]

\* a file whose text is the JSON value null: reading data.accounts throws a
\* TypeError
JsonNull == [null |-> TRUE]

\* JSON.parse(content) as AccountStorage, read through its properties; a
\* property the text of the object lacks is lacking in the value
JsonParse(content) ==
    [p \in DOMAIN content |->
        IF p = "accounts"
        THEN [i \in DOMAIN content.accounts |->
                 LET obj == content.accounts[i]
                 IN  [k \in AccountKeys |->
                         IF k \notin DOMAIN obj THEN UndefinedValue(k)
                         ELSE IF k = "rateLimitResetTimes"
                         THEN [f \in Families |->
                                  IF f \in DOMAIN obj[k] THEN obj[k][f] ELSE Absent]
                         ELSE obj[k]]]
        ELSE content[p]]

\* a load that returns the parsed data with the activeIndex it holds
loadAccountStorageAsStored(f) ==
    IF f \in {NoFile, Malformed, JsonNull} THEN NoFile
    ELSE LET data == JsonParse(f)
         IN  IF "accounts" \notin DOMAIN data THEN NoFile
             ELSE IF "version" \notin DOMAIN data \/ data.version # STORAGE_VERSION
             THEN NoFile
             ELSE data

\* loadAccountStorage() on the file f: the storage value, or NoFile for null.
\* The errors thrown for a missing file (ENOENT), by JSON.parse and by reading
\* a property of null are caught and null is returned; an accounts property
\* that is lacking is not an array and an activeIndex that is lacking is not a
\* number.
loadAccountStorage(f) ==
    IF f \in {NoFile, Malformed, JsonNull} THEN NoFile
    ELSE LET data == JsonParse(f)
         IN  IF "accounts" \notin DOMAIN data THEN NoFile
             ELSE IF "version" \notin DOMAIN data \/ data.version # STORAGE_VERSION
             THEN NoFile
             ELSE IF \/ "activeIndex" \notin DOMAIN data
                     \/ data.activeIndex < 0
                     \/ data.activeIndex >= Len(data.accounts)
             THEN [p \in DOMAIN data \cup {"activeIndex"} |->
                      IF p = "activeIndex" THEN 0 ELSE data[p]]
             ELSE data

\* saveAccountStorage(storage): the content of the file it writes
saveAccountStorage(storage) == JsonStringify(storage)

\* AntigravityAccountManager.save() up to its await: the storage value it
\* hands to saveAccountStorage
save(m, t) ==
    [version |-> STORAGE_VERSION,
     accounts |-> [i \in DOMAIN m.accounts |->
        LET acc == m.accounts[i]
        IN  [email |-> acc.email,
             tier |-> acc.tier,
             refreshToken |-> acc.refreshToken,
             projectId |-> acc.projectId,
             addedAt |-> IF acc.lastUsed # 0 THEN acc.lastUsed ELSE t,
             lastUsed |-> acc.lastUsed,
             lastSwitchReason |-> acc.lastSwitchReason,
             rateLimitResetTimes |-> acc.rateLimitResetTimes,
             access |-> acc.access,
             expires |-> acc.expires,
             hasAccess |-> acc.hasAccess,
             lastError |-> acc.lastError,
             lastErrorAt |-> acc.lastErrorAt]],
     activeIndex |-> Max({0, m.currentAccountIndex})]

NoSeed == [refresh |-> Undefined, projectId |-> Undefined,
           access |-> NoAccess, expires |-> Absent]

\* new AntigravityAccountManager(refresh, projectId, access, expires, stored);
\* oid0 is the identity of the first account object it creates.
NewManager(seed, stored, t, oid0) ==
    IF stored # NoFile /\ Len(stored.accounts) > 0
    THEN LET current == Max({0, Min({stored.activeIndex, Len(stored.accounts) - 1})})
         IN  [currentAccountIndex |-> current,
              rotationIndex |-> current,
              accounts |-> [i \in DOMAIN stored.accounts |->
                 LET acc == stored.accounts[i]
                     index == i - 1
                 IN  [oid |-> oid0 + index,
                      index |-> index,
                      refreshToken |-> acc.refreshToken,
                      projectId |-> acc.projectId,
                      access |-> IF acc.access # NoAccess THEN acc.access
                                 ELSE IF index = current THEN seed.access
                                 ELSE NoAccess,
                      expires |-> IF acc.expires # Absent THEN acc.expires
                                  ELSE IF index = current THEN seed.expires
                                  ELSE Absent,
                      rateLimitResetTimes |-> acc.rateLimitResetTimes,
                      lastUsed |-> acc.lastUsed,
                      email |-> acc.email,
                      tier |-> acc.tier,
                      lastSwitchReason |-> acc.lastSwitchReason,
                      hasAccess |-> acc.hasAccess,
                      lastError |-> acc.lastError,
                      lastErrorAt |-> acc.lastErrorAt]]]
    ELSE IF seed.refresh # Undefined
    THEN [currentAccountIndex |-> 0,
          rotationIndex |-> 0,
          accounts |-> << [oid |-> oid0,
                           index |-> 0,
                           refreshToken |-> seed.refresh,
                           projectId |-> seed.projectId,
                           access |-> seed.access,
                           expires |-> seed.expires,
                           rateLimitResetTimes |-> NoLimits,
                           lastUsed |-> t,
                           email |-> Undefined,
                           tier |-> Undefined,
                           lastSwitchReason |-> Undefined,
                           hasAccess |-> Undefined,
                           lastError |-> Undefined,
                           lastErrorAt |-> Absent] >>]
    ELSE [currentAccountIndex |-> 0, rotationIndex |-> 0, accounts |-> <<>>]

\* getAntigravityAccountManager(seed): the instance it returns
getAntigravityAccountManager(seed) ==
    IF accountManagerInstance # NoManager THEN accountManagerInstance
    ELSE NewManager(seed, loadAccountStorage(file), now, nextOid)

\* the account objects a call of getAntigravityAccountManager creates
OidsCreated(seed) ==
    IF accountManagerInstance # NoManager THEN 0
    ELSE Len(NewManager(seed, loadAccountStorage(file), now, nextOid).accounts)

\* an addAccount without the check of MAX_ACCOUNTS
addAccountNoCap(m, refreshToken, projectId, access, expires, email, tier, oid) ==
    LET pushed == Append(m.accounts,
            [oid |-> oid,
             index |-> Len(m.accounts),
             refreshToken |-> refreshToken,
             projectId |-> projectId,
             access |-> access,
             expires |-> expires,
             rateLimitResetTimes |-> NoLimits,
             lastUsed |-> 0,
             email |-> email,
             tier |-> tier,
             lastSwitchReason |-> Undefined,
             hasAccess |-> Undefined,
             lastError |-> Undefined,
             lastErrorAt |-> Absent])
    IN  [m |-> [m EXCEPT !.accounts =
                   [i \in DOMAIN pushed |-> [pushed[i] EXCEPT !.index = i - 1]]],
         ret |-> TRUE]

addAccount(m, refreshToken, projectId, access, expires, email, tier, oid) ==
    IF Len(m.accounts) >= MAX_ACCOUNTS THEN [m |-> m, ret |-> FALSE]
    ELSE LET pushed == Append(m.accounts,
                 [oid |-> oid,
                  index |-> Len(m.accounts),
                  refreshToken |-> refreshToken,
                  projectId |-> projectId,
                  access |-> access,
                  expires |-> expires,
                  rateLimitResetTimes |-> NoLimits,
                  lastUsed |-> 0,
                  email |-> email,
                  tier |-> tier,
                  lastSwitchReason |-> Undefined,
                  hasAccess |-> Undefined,
                  lastError |-> Undefined,
                  lastErrorAt |-> Absent])
         IN  [m |-> [m EXCEPT !.accounts =
                        [i \in DOMAIN pushed |-> [pushed[i] EXCEPT !.index = i - 1]]],
              ret |-> TRUE]

\* a removeAccount that leaves the index of the accounts that remain as it was
removeAccountNoReindex(m, index) ==
    IF index < 0 \/ index >= Len(m.accounts) THEN [m |-> m, ret |-> FALSE]
    ELSE LET spliced == [i \in 1..(Len(m.accounts) - 1) |->
                            IF i <= index THEN m.accounts[i] ELSE m.accounts[i + 1]]
         IN  [m |-> [m EXCEPT !.accounts = spliced,
                              !.currentAccountIndex =
                                  IF @ >= Len(spliced)
                                  THEN Max({0, Len(spliced) - 1}) ELSE @],
              ret |-> TRUE]

\* a removeAccount that leaves currentAccountIndex as it was
removeAccountNoClamp(m, index) ==
    IF index < 0 \/ index >= Len(m.accounts) THEN [m |-> m, ret |-> FALSE]
    ELSE LET spliced == [i \in 1..(Len(m.accounts) - 1) |->
                            IF i <= index THEN m.accounts[i] ELSE m.accounts[i + 1]]
             reindexed == [i \in DOMAIN spliced |-> [spliced[i] EXCEPT !.index = i - 1]]
         IN  [m |-> [m EXCEPT !.accounts = reindexed], ret |-> TRUE]

removeAccount(m, index) ==
    IF index < 0 \/ index >= Len(m.accounts) THEN [m |-> m, ret |-> FALSE]
    ELSE LET spliced == [i \in 1..(Len(m.accounts) - 1) |->
                            IF i <= index THEN m.accounts[i] ELSE m.accounts[i + 1]]
             reindexed == [i \in DOMAIN spliced |-> [spliced[i] EXCEPT !.index = i - 1]]
         IN  [m |-> [m EXCEPT !.accounts = reindexed,
                              !.currentAccountIndex =
                                  IF @ >= Len(reindexed)
                                  THEN Max({0, Len(reindexed) - 1}) ELSE @],
              ret |-> TRUE]

(***************************************************************************)
(* Sessions: the broker call and the dispatch run of each session          *)
(***************************************************************************)
NoResult == [kind |-> "none"]
NullResult == [kind |-> "null"]
NoPending == [none |-> TRUE]

BrokerIdle == [pc |-> "idle", family |-> "none", mode |-> "none",
               account |-> NoOid, nextAccount |-> NoOid,
               refreshCalls |-> 0, failedAt |-> Absent,
               pending |-> NoPending, result |-> NoResult]

NoError == <<>>

\* no call of waitForEmbeddedPiRunEnd yet: registered is membership in
\* EMBEDDED_RUN_WAITERS, timer the state of the waiter's timeout, resolved the
\* values its promise was resolved with, in order
NoWaiter == [registered |-> FALSE, timer |-> "none", resolved |-> <<>>]

RunIdle == [pc |-> "idle", runs |-> 0, provider |-> "none", modelId |-> <<>>,
            attempt |-> 0, served |-> NoOid, lastActivityAt |-> 0,
            activityTimeoutError |-> FALSE, aborted |-> FALSE,
            promptError |-> NoError, markedAt |-> Absent,
            abortTimer |-> "none", activityChecker |-> "none", armedIn |-> 0,
            abortCalls |-> 0,
            pending |-> NoPending, log |-> <<>>, outcome |-> "none"]

(***************************************************************************)
(* Stored files a process can start from: accounts written by earlier      *)
(* runs of the add and test commands.                                      *)
(***************************************************************************)
FarFuture == 100 * ANTIGRAVITY_ACTIVITY_TIMEOUT_MS

RefreshTokens == <<"rtA", "rtB", "rtC">>
ProjectIds == <<"projA", "projB", "projC">>

\* the access token issued for a refresh token, named by its expiry
Token(refreshToken, expires) == <<refreshToken, expires>>

StoredAccount(i, tier, hasAccess, projectId, access, expires) ==
    [email |-> Undefined,
     tier |-> tier,
     refreshToken |-> RefreshTokens[i],
     projectId |-> projectId,
     addedAt |-> 0,
     lastUsed |-> 0,
     lastSwitchReason |-> Undefined,
     rateLimitResetTimes |-> NoLimits,
     access |-> access,
     expires |-> expires,
     hasAccess |-> hasAccess,
     lastError |-> IF hasAccess = "false" THEN "Invalid credentials" ELSE Undefined,
     lastErrorAt |-> IF hasAccess = "false" THEN 0 ELSE Absent]

HasAccessValues == {Undefined, "true", "false"}

\* a file of n accounts that all hold a fresh token
StoredFile(n, tiers, has, resets, active) ==
    [version |-> STORAGE_VERSION,
     accounts |-> [i \in 1..n |->
         [StoredAccount(i, tiers[i], has[i], ProjectIds[i],
                        Token(RefreshTokens[i], FarFuture), FarFuture)
             EXCEPT !.rateLimitResetTimes = [NoLimits EXCEPT !["claude"] = resets[i]]]],
     activeIndex |-> active]

\* the file is one of n accounts that differ in tier, hasAccess and in the
\* rate limit stored for claude, with any of them active
IsStoredFile(f, n, resetTimes) ==
    \E tiers \in [1..n -> Tiers], has \in [1..n -> HasAccessValues],
       resets \in [1..n -> resetTimes], active \in 0..(n - 1) :
        f = saveAccountStorage(StoredFile(n, tiers, has, resets, active))

\* a file of n accounts of the free tier that differ in hasAccess, in the rate
\* limit stored for claude, in having a project and in the token they hold:
\* tokens[i] is "fresh", "expired" (at time t), "zero" (expires is 0),
\* "unexpiring" (expires is undefined) or "missing"
BrokerFile(n, has, resets, projects, tokens, active, t) ==
    [version |-> STORAGE_VERSION,
     accounts |-> [i \in 1..n |->
         [StoredAccount(i, "free", has[i],
                        IF projects[i] THEN ProjectIds[i] ELSE Undefined,
                        CASE tokens[i] = "fresh" -> Token(RefreshTokens[i], FarFuture)
                          [] tokens[i] = "expired" -> Token(RefreshTokens[i], t)
                          [] tokens[i] = "zero" -> Token(RefreshTokens[i], 0)
                          [] tokens[i] = "unexpiring" -> Token(RefreshTokens[i], Absent)
                          [] OTHER -> NoAccess,
                        CASE tokens[i] = "fresh" -> FarFuture
                          [] tokens[i] = "expired" -> t
                          [] tokens[i] = "zero" -> 0
                          [] OTHER -> Absent)
             EXCEPT !.rateLimitResetTimes = [NoLimits EXCEPT !["claude"] = resets[i]]]],
     activeIndex |-> active]

IsBrokerFile(f, n, hasValues, resetTimes, tokenStates, t) ==
    \E has \in [1..n -> hasValues], resets \in [1..n -> resetTimes],
       projects \in [1..n -> BOOLEAN], tokens \in [1..n -> tokenStates],
       active \in 0..(n - 1) :
        f = saveAccountStorage(BrokerFile(n, has, resets, projects, tokens, active, t))

(***************************************************************************)
(* Actions of the pool                                                     *)
(***************************************************************************)
Call(op, family, mode, ret, arg) ==
    [op |-> op, family |-> family, mode |-> mode, ret |-> ret, arg |-> arg]

Cand(m, family, t) ==
    IF m = NoManager THEN {} ELSE OidsOf(CandidatePool(m, family, t))

\* a process calls getAntigravityAccountManager() for the first time
GetManager(seed) ==
    /\ accountManagerInstance = NoManager
    /\ nextOid + OidsCreated(seed) <= MaxOid + 1
    /\ accountManagerInstance' = getAntigravityAccountManager(seed)
    /\ nextOid' = nextOid + OidsCreated(seed)
    /\ lastCall' = Call("getManager", "none", "none", NoOid, 0)
    /\ UNCHANGED <<now, file, brk, run>>

SelectAccount(family, mode) ==
    /\ accountManagerInstance # NoManager
    /\ accountManagerInstance.rotationIndex < MaxRotation
    /\ LET r == selectAccountForFamily(accountManagerInstance, family, mode, now)
       IN  /\ accountManagerInstance' = r.m
           /\ lastCall' = Call("select", family, mode, r.ret, 0)
    /\ UNCHANGED <<now, file, nextOid, brk, run>>

MarkRateLimited(oid, retryAfterMs, family) ==
    /\ accountManagerInstance # NoManager
    /\ InPool(accountManagerInstance, oid)
    /\ accountManagerInstance' =
           markRateLimited(accountManagerInstance, oid, retryAfterMs, family, now)
    /\ lastCall' = Call("markRateLimited", family, "none", oid, retryAfterMs)
    /\ UNCHANGED <<now, file, nextOid, brk, run>>

Tick(d) ==
    /\ now + d <= MaxNow
    /\ now' = now + d
    /\ lastCall' = Call("tick", "none", "none", NoOid, d)
    /\ UNCHANGED <<accountManagerInstance, file, nextOid, brk, run>>

(***************************************************************************)
(* The credential broker: getAccountResultFromManager, one action per      *)
(* stretch of code between two awaits.                                     *)
(***************************************************************************)
TokenLifetime == 2 * TickUnit

CeilDiv(a, b) == (a + b - 1) \div b

\* tokenExpired = !account.access || (account.expires && now >= account.expires)
tokenExpired(acc, t) ==
    \/ acc.access = NoAccess
    \/ acc.expires \notin {Absent, 0} /\ t >= acc.expires

\* refreshAccountToken calls the refresher only with a refresh token and a project
canRefresh(acc) == acc.refreshToken # Undefined /\ acc.projectId # Undefined

\* a result that always carries the refresh token of the first stored account
AccountResultFirstToken(acc, access, expires) ==
    [kind |-> "credential", account |-> acc.oid, access |-> access,
     refreshToken |-> RefreshTokens[1], projectId |-> acc.projectId,
     expires |-> expires]

AccountResult(acc, access, expires) ==
    [kind |-> "credential", account |-> acc.oid, access |-> access,
     refreshToken |-> acc.refreshToken, projectId |-> acc.projectId,
     expires |-> expires]

\* the error message carries the wait in whole seconds, rounded up
RateLimitedAll(family, waitTime) ==
    [kind |-> "RateLimitedAll", family |-> family,
     retrySeconds |-> CeilDiv(waitTime, 1000)]

RefreshFailed(oid) == [kind |-> "RefreshFailed", account |-> oid]

\* manager.save() up to its first await: the storage value is built, its
\* rateLimitResetTimes still being the accounts' own objects
Snapshot(m, t) ==
    [storage |-> save(m, t),
     oids |-> [i \in DOMAIN m.accounts |-> m.accounts[i].oid]]

\* saveAccountStorage(storage) after its await: JSON.stringify reads the rate
\* limits from the accounts' objects as they are then
Written(pending, m) ==
    saveAccountStorage(
        [pending.storage EXCEPT !.accounts =
            [i \in DOMAIN @ |->
                IF InPool(m, pending.oids[i])
                THEN [@[i] EXCEPT !.rateLimitResetTimes =
                                      Acct(m, pending.oids[i]).rateLimitResetTimes]
                ELSE @[i]]])

\* from the call to the first await, or to the return
BrokerStart(s, modelId) ==
    /\ accountManagerInstance # NoManager
    /\ brk[s].pc = "idle"
    /\ LET m == accountManagerInstance
           family == getModelFamily(modelId)
           selectionMode == IF getAccountCount(m) > 1 THEN "round-robin" ELSE "sticky"
           sel == selectAccountForFamily(m, family, selectionMode, now)
           wait == getMinWaitTimeForFamily(sel.m, family, now)
           b == [brk[s] EXCEPT !.family = family, !.mode = selectionMode,
                               !.account = sel.ret]
       IN  /\ lastCall' = Call("broker", family, selectionMode, sel.ret, s)
           /\ IF sel.ret = NoOid
              THEN /\ accountManagerInstance' = wait.m
                   /\ brk' = [brk EXCEPT ![s] = [b EXCEPT !.pc = "done",
                          !.result = IF wait.ret > 0
                                     THEN RateLimitedAll(family, wait.ret)
                                     ELSE NullResult]]
              ELSE /\ accountManagerInstance' = sel.m
                   /\ LET account == Acct(sel.m, sel.ret)
                      IN  brk' = [brk EXCEPT ![s] =
                            IF account.projectId = Undefined
                            THEN [b EXCEPT !.pc = "done", !.result = NullResult]
                            ELSE IF tokenExpired(account, now)
                            THEN [b EXCEPT !.pc = "refresh",
                                     !.refreshCalls = IF canRefresh(account) THEN 1 ELSE 0]
                            ELSE [b EXCEPT !.pc = "save",
                                           !.pending = Snapshot(sel.m, now)]]
    /\ UNCHANGED <<now, file, nextOid, run>>

\* refreshAccountToken settles: with a token, or with null after an error or
\* the 15 s timeout
RefreshDone(s, ok) ==
    /\ brk[s].pc \in {"refresh", "refreshNext"}
    /\ LET m == accountManagerInstance
           b == brk[s]
           first == b.pc = "refresh"
           oid == IF first THEN b.account ELSE b.nextAccount
           account == Acct(m, oid)
           expires == now + TokenLifetime
           access == Token(account.refreshToken, expires)
           updated == updateAccount(m, oid, access, expires)
           marked == markRateLimited(m, b.account, REFRESH_FAILURE_COOLDOWN_MS,
                                     b.family, now)
           sel == selectAccountForFamily(marked, b.family, b.mode, now)
           nextAccount == Acct(sel.m, sel.ret)
       IN  /\ ok => canRefresh(account)
           /\ lastCall' = Call("refreshed", b.family, b.mode, oid, s)
           /\ IF ok
              THEN /\ accountManagerInstance' = updated
                   /\ brk' = [brk EXCEPT ![s] = [b EXCEPT !.pc = "save",
                          !.pending = Snapshot(updated, now),
                          !.result = AccountResult(account, access, expires)]]
              ELSE IF first
              THEN /\ accountManagerInstance' = sel.m
                   /\ brk' = [brk EXCEPT ![s] =
                        IF /\ sel.ret # NoOid
                           /\ nextAccount.index # Acct(sel.m, b.account).index
                           /\ nextAccount.projectId # Undefined
                        THEN [b EXCEPT !.pc = "refreshNext", !.failedAt = now,
                                 !.nextAccount = sel.ret,
                                 !.refreshCalls =
                                     IF canRefresh(nextAccount) THEN @ + 1 ELSE @]
                        ELSE [b EXCEPT !.pc = "done", !.failedAt = now,
                                       !.result = RefreshFailed(b.account)]]
              ELSE /\ UNCHANGED accountManagerInstance
                   /\ brk' = [brk EXCEPT ![s] = [b EXCEPT !.pc = "done",
                                  !.result = RefreshFailed(b.account)]]
    /\ UNCHANGED <<now, file, nextOid, run>>

\* manager.save() settles; on the path without a refresh the token is read now
BrokerSaved(s) ==
    /\ brk[s].pc = "save"
    /\ LET b == brk[s]
           account == Acct(accountManagerInstance, b.account)
       IN  /\ file' = Written(b.pending, accountManagerInstance)
           /\ lastCall' = Call("saved", b.family, b.mode, b.account, s)
           /\ brk' = [brk EXCEPT ![s] = [b EXCEPT !.pc = "done",
                  !.pending = NoPending,
                  !.result =
                      IF b.result # NoResult THEN b.result
                      ELSE IF account.access = NoAccess THEN NullResult
                      ELSE AccountResult(account, account.access,
                               IF account.expires = Absent THEN 0 ELSE account.expires)]]
    /\ UNCHANGED <<now, accountManagerInstance, nextOid, run>>

(***************************************************************************)
(* The dispatch run: runEmbeddedPiAgent for one session.  run[s].attempt   *)
(* counts the iterations of the retry loop entered so far, run[s].log      *)
(* keeps how each of them ended.                                           *)
(***************************************************************************)
Providers == {"google-antigravity", "anthropic"}

\* an error message is the sequence of its words
PromptErrors == {NoError, <<"429", "too", "many", "requests">>, <<"invalid", "request">>}

isRateLimitError(errorMsg) ==
    {"429", "rate", "quota", "limit", "timeout", "ECONNRESET", "ETIMEDOUT"}
        \cap Range(errorMsg) # {}

maxRetries(provider) ==
    IF provider = "google-antigravity" THEN ANTIGRAVITY_MAX_RETRIES ELSE 1

\* a catch that retries after any error
isRetryableAny(error) == TRUE

\* err instanceof AntigravityActivityTimeoutError
isRetryable(error) == error = "ActivityTimeout"

\* the identity of an object that is not one of the pool's accounts
Detached == MaxOid + 1

\* markAntigravityAccountRateLimited after its loads: the account marked is a
\* copy of stored.accounts[activeIndex], not an object of the pool
markAntigravityAccountRateLimited(m, stored, modelId, durationMs, t) ==
    LET family == getModelFamily(modelId)
        activeIndex == stored.activeIndex
        accountData == stored.accounts[activeIndex + 1]
        account == accountData @@ [index |-> activeIndex, oid |-> Detached]
    IN  markRateLimited(m, account.oid, durationMs, family, t)

\* the catch of the retry loop: the next iteration, with the variables of the
\* attempt declared anew, or the error propagated
AfterThrow(r, error) ==
    LET ended == [r EXCEPT !.log = Append(@, [served |-> r.served, ending |-> error,
                                             markedAt |-> r.markedAt,
                                             wallClock |-> r.abortTimer = "fired"]),
                           !.pending = NoPending, !.markedAt = Absent]
    IN  IF r.attempt = 0
        THEN [r EXCEPT !.pc = "done", !.outcome = error]
        ELSE IF isRetryable(error) /\ r.attempt - 1 < maxRetries(r.provider) - 1
        THEN [ended EXCEPT !.pc = "acquire", !.attempt = @ + 1, !.served = NoOid,
                           !.aborted = FALSE, !.abortCalls = 0,
                           !.abortTimer = IF @ = "armed" THEN @ ELSE "none",
                           !.activityChecker = IF @ = "armed" THEN @ ELSE "none"]
        ELSE [ended EXCEPT !.pc = "done", !.outcome = error]

\* the attempt has its credential: the session is created, the activity
\* checker (for google-antigravity) and the run timeout are armed, and the
\* session is prompted
StartPrompt(r, oid, t) ==
    [r EXCEPT !.pc = "prompt", !.attempt = IF @ = 0 THEN 1 ELSE @, !.served = oid,
              !.lastActivityAt = t, !.activityTimeoutError = FALSE,
              !.aborted = FALSE, !.promptError = NoError,
              !.activityChecker = IF r.provider = "google-antigravity"
                                  THEN "armed" ELSE "none",
              !.abortTimer = "armed",
              !.armedIn = IF r.attempt = 0 THEN 1 ELSE r.attempt,
              !.abortCalls = 0]

\* an abortRun that cancels the request without setting aborted
abortRunNoFlag(r) == [r EXCEPT !.abortCalls = Min({@ + 1, MaxAborts})]

\* abortRun: aborted = true; void session.abort()
abortRun(r) == [r EXCEPT !.aborted = TRUE, !.abortCalls = Min({@ + 1, MaxAborts})]

\* a finally that leaves the activity checker running
clearTimersKeepChecker(r) ==
    [r EXCEPT !.abortTimer = IF @ = "armed" THEN "cleared" ELSE @]

\* the finally of the attempt: clearTimeout(abortTimer), clearInterval(activityChecker)
clearTimers(r) ==
    [r EXCEPT !.abortTimer = IF @ = "armed" THEN "cleared" ELSE @,
              !.activityChecker = IF @ = "armed" THEN "cleared" ELSE @]

RunStart(s, provider, modelId) ==
    /\ run[s].pc = "idle"
    /\ run[s].runs < MaxRuns
    /\ brk[s].pc = "idle"
    /\ run' = [run EXCEPT ![s] = [RunIdle EXCEPT !.pc = "acquire", !.runs = run[s].runs + 1,
                                     !.provider = provider, !.modelId = modelId]]
    /\ lastCall' = Call("run", "none", "none", NoOid, s)
    /\ UNCHANGED <<now, accountManagerInstance, file, nextOid, brk>>

\* getApiKeyForModel for google-antigravity: the broker is called
RunBroker(s) ==
    /\ run[s].pc = "acquire"
    /\ run[s].provider = "google-antigravity"
    /\ BrokerStart(s, run[s].modelId)

\* getApiKeyForModel settles for google-antigravity; after a null from the
\* broker the legacy store has a key or not
RunAcquired(s, legacyKey) ==
    /\ run[s].pc = "acquire"
    /\ run[s].provider = "google-antigravity"
    /\ brk[s].pc = "done"
    /\ LET result == brk[s].result
       IN  /\ result.kind = "credential" => legacyKey
           /\ result.kind \in {"RateLimitedAll", "RefreshFailed"} => ~legacyKey
           /\ run' = [run EXCEPT ![s] =
                  IF result.kind = "credential" THEN StartPrompt(@, result.account, now)
                  ELSE IF result.kind = "null"
                  THEN (IF legacyKey THEN StartPrompt(@, NoOid, now)
                        ELSE AfterThrow(@, "NoApiKey"))
                  ELSE AfterThrow(@, result.kind)]
    /\ brk' = [brk EXCEPT ![s] = BrokerIdle]
    /\ lastCall' = Call("acquired", "none", "none", NoOid, s)
    /\ UNCHANGED <<now, accountManagerInstance, file, nextOid>>

\* getApiKeyForModel for another provider
RunAcquiredOther(s, key) ==
    /\ run[s].pc = "acquire"
    /\ run[s].provider # "google-antigravity"
    /\ run' = [run EXCEPT ![s] = IF key THEN StartPrompt(@, NoOid, now)
                                 ELSE AfterThrow(@, "NoApiKey")]
    /\ lastCall' = Call("acquired", "none", "none", NoOid, s)
    /\ UNCHANGED <<now, accountManagerInstance, file, nextOid, brk>>

\* onActivity: a streaming event arrives
Activity(s) ==
    /\ run[s].pc = "prompt"
    /\ ~run[s].aborted
    /\ run[s].lastActivityAt # now
    /\ run' = [run EXCEPT ![s].lastActivityAt = now]
    /\ lastCall' = Call("activity", "none", "none", NoOid, s)
    /\ UNCHANGED <<now, accountManagerInstance, file, nextOid, brk>>

\* the activity checker is running and has not yet found the stream silent
\* for more than 30 s, as it is now
WatchdogDue(s) ==
    /\ run[s].activityChecker = "armed"
    /\ ~run[s].activityTimeoutError
    /\ now - run[s].lastActivityAt > ANTIGRAVITY_ACTIVITY_TIMEOUT_MS

\* the activity checker runs, every 5 s, and finds the stream silent for more
\* than 30 s
Watchdog(s) ==
    /\ run[s].activityChecker = "armed"
    /\ now - run[s].lastActivityAt > ANTIGRAVITY_ACTIVITY_TIMEOUT_MS
    /\ ~run[s].activityTimeoutError \/ run[s].abortCalls < MaxAborts
    /\ run' = [run EXCEPT ![s] = abortRun([@ EXCEPT !.activityTimeoutError = TRUE])]
    /\ lastCall' = Call("watchdog", "none", "none", run[s].served, s)
    /\ UNCHANGED <<now, accountManagerInstance, file, nextOid, brk>>

\* the run timeout (timeoutMs) expires
WallClock(s) ==
    /\ run[s].abortTimer = "armed"
    /\ run' = [run EXCEPT ![s] = abortRun([@ EXCEPT !.abortTimer = "fired"])]
    /\ lastCall' = Call("wallclock", "none", "none", run[s].served, s)
    /\ UNCHANGED <<now, accountManagerInstance, file, nextOid, brk>>

\* abortRun through the abort signal or the queue handle
Abort(s) ==
    /\ run[s].pc = "prompt"
    /\ run[s].abortCalls < MaxAborts
    /\ run' = [run EXCEPT ![s] = abortRun(@)]
    /\ lastCall' = Call("abort", "none", "none", NoOid, s)
    /\ UNCHANGED <<now, accountManagerInstance, file, nextOid, brk>>

\* the attempt from its finally on, after promptError or none: the timers are
\* cleared, then the account is marked or the attempt returns or throws; the
\* code up to the next await, or to the end of the attempt
AttemptEnd(s, promptError) ==
    /\ LET r == clearTimers([run[s] EXCEPT !.promptError = promptError])
           stored == loadAccountStorage(file)
           marks == \/ r.activityTimeoutError
                    \/ /\ promptError # NoError /\ ~r.aborted
                       /\ r.provider = "google-antigravity"
                       /\ isRateLimitError(promptError)
           manager == getAntigravityAccountManager(NoSeed)
           marked == markAntigravityAccountRateLimited(manager, stored, r.modelId,
                                                       SILENT_RATE_LIMIT_MS, now)
       IN  IF marks /\ stored # NoFile /\ Len(stored.accounts) > 0
           THEN /\ nextOid + OidsCreated(NoSeed) <= MaxOid + 1
                /\ accountManagerInstance' = marked
                /\ nextOid' = nextOid + OidsCreated(NoSeed)
                /\ run' = [run EXCEPT ![s] = [r EXCEPT !.pc = "marking",
                              !.markedAt = now, !.pending = Snapshot(marked, now)]]
           ELSE /\ UNCHANGED <<accountManagerInstance, nextOid>>
                /\ run' = [run EXCEPT ![s] =
                       IF r.activityTimeoutError THEN AfterThrow(r, "ActivityTimeout")
                       ELSE IF promptError # NoError /\ ~r.aborted
                       THEN AfterThrow(r, "PromptError")
                       ELSE [r EXCEPT !.pc = "done", !.outcome = "returned",
                                !.log = Append(@, [served |-> r.served,
                                                  ending |-> "returned",
                                                  markedAt |-> Absent,
                                                  wallClock |-> r.abortTimer = "fired"])]]
    /\ lastCall' = Call("promptEnd", "none", "none", run[s].served, s)
    /\ UNCHANGED <<now, file, brk>>

\* session.prompt settles, with promptError or without, and neither
\* waitForCompactionRetry nor a deferred compaction keeps the attempt waiting
PromptEnd(s, promptError) ==
    /\ run[s].pc = "prompt"
    /\ AttemptEnd(s, promptError)

\* markAntigravityAccountRateLimited settles after manager.save(); the error
\* of the attempt is thrown
RunMarkSaved(s) ==
    /\ run[s].pc = "marking"
    /\ file' = Written(run[s].pending, accountManagerInstance)
    /\ run' = [run EXCEPT ![s] =
           AfterThrow(@, IF @.activityTimeoutError THEN "ActivityTimeout"
                         ELSE "PromptError")]
    /\ lastCall' = Call("markSaved", "none", "none", run[s].served, s)
    /\ UNCHANGED <<now, accountManagerInstance, nextOid, brk>>

(***************************************************************************)
(* History variables.  Each specification keeps the ones its claims read   *)
(* and leaves the others unchanged.                                        *)
(***************************************************************************)
NoMarks == [o \in Oids |-> NoLimits]

\* markedUntil, maxMarkedUntil: what markRateLimited has written
TrackMarks ==
    IF lastCall'.op = "markRateLimited"
    THEN LET oid == lastCall'.ret
             f == lastCall'.family
             until == now + lastCall'.arg
         IN  /\ markedUntil' = [markedUntil EXCEPT ![oid][f] = until]
             /\ maxMarkedUntil' = [maxMarkedUntil EXCEPT ![oid][f] = Max({@, until})]
    ELSE UNCHANGED <<markedUntil, maxMarkedUntil>>

\* rrHist[f]: the picks <<oid, rotationIndex before the pick>> of the successful
\* round-robin selections for f made since the candidate pool of f last changed;
\* the last |P| + 1 of them are kept.
LastN(s, n) == IF Len(s) <= n THEN s ELSE SubSeq(s, Len(s) - n + 1, Len(s))

TrackRoundRobin ==
    rrHist' = [f \in Families |->
        IF Cand(accountManagerInstance', f, now') # Cand(accountManagerInstance, f, now)
        THEN <<>>
        ELSE IF /\ lastCall'.op = "select"
                /\ lastCall'.family = f
                /\ lastCall'.mode = "round-robin"
                /\ Len(accountManagerInstance.accounts) > 1
                /\ lastCall'.ret # NoOid
             THEN LastN(Append(rrHist[f],
                               <<lastCall'.ret, accountManagerInstance.rotationIndex>>),
                        Cardinality(Cand(accountManagerInstance, f, now)) + 1)
             ELSE rrHist[f]]

\* managerCalls: created counts the instances constructed, current is the one
\* accountManagerInstance holds (0 for null), obtained are the instances
\* returned to callers since the last reset
NoCalls == [created |-> 0, current |-> 0, obtained |-> {},
            pc |-> [s \in Sessions |-> "idle"]]

InitCommon ==
    /\ accountManagerInstance = NoManager
    /\ nextOid = 1
    /\ brk = [s \in Sessions |-> BrokerIdle]
    /\ run = [s \in Sessions |-> RunIdle]
    /\ lastCall = Call("none", "none", "none", NoOid, 0)
    /\ markedUntil = NoMarks
    /\ maxMarkedUntil = NoMarks
    /\ rrHist = [f \in Families |-> <<>>]
    /\ progress = [s \in Sessions |-> 0]
    /\ managerCalls = NoCalls
    /\ nextCheckAt = [s \in Sessions |-> Absent]
    /\ waiters = [s \in Sessions |-> NoWaiter]

(***************************************************************************)
(* SpecPool: a pool of one or two accounts, rate limits of one family,     *)
(* any number of selections, marks and clock ticks.                        *)
(***************************************************************************)
MarkDurations == {REFRESH_FAILURE_COOLDOWN_MS, SILENT_RATE_LIMIT_MS}

InitPool ==
    /\ InitCommon
    /\ now = 0
    /\ \E n \in {1, 2} : IsStoredFile(file, n, {Absent})

NextPool ==
    \/ GetManager(NoSeed) /\ TrackMarks /\ UNCHANGED <<rrHist, progress, managerCalls, nextCheckAt, waiters>>
    \/ \E mode \in Modes :
          /\ SelectAccount("claude", mode)
          /\ accountManagerInstance.rotationIndex < PoolRotation
          /\ TrackMarks /\ UNCHANGED <<rrHist, progress, managerCalls, nextCheckAt, waiters>>
    \/ \E oid \in Oids, d \in MarkDurations :
          MarkRateLimited(oid, d, "claude") /\ TrackMarks /\ UNCHANGED <<rrHist, progress, managerCalls, nextCheckAt, waiters>>
    \/ /\ Tick(2 * TickUnit)
       /\ now' <= PoolTicks * TickUnit
       /\ TrackMarks /\ UNCHANGED <<rrHist, progress, managerCalls, nextCheckAt, waiters>>

SpecPool == InitPool /\ [][NextPool]_vars

(***************************************************************************)
(* Claims checked under SpecPool                                           *)
(***************************************************************************)
JustSelected == lastCall.op = "select" /\ lastCall.ret # NoOid

\* C1: every account selectAccountForFamily returns is, at that moment, not
\* rate-limited for the family and has hasAccess different from false.
C1_SelectedIsEligible ==
    JustSelected =>
        LET a == Acct(accountManagerInstance, lastCall.ret)
        IN  /\ ~(a.rateLimitResetTimes[lastCall.family] # Absent
                 /\ a.rateLimitResetTimes[lastCall.family] > now)
            /\ a.hasAccess # "false"

\* C2 as claimed: a selection for f made inside the window [t, t + d) of any
\* earlier markRateLimited(a, d, f) does not return a.
C2_NotSelectedInsideAnyWindow ==
    JustSelected => now >= maxMarkedUntil[lastCall.ret][lastCall.family]

\* C2 as amended: a selection for f made inside the window of the latest
\* markRateLimited(a, d, f) does not return a.
C2_NotSelectedInsideLatestWindow ==
    JustSelected => now >= markedUntil[lastCall.ret][lastCall.family]

\* a selection made while an account is inside its latest window, after the
\* clock has moved, returned another account
C2_Witness ==
    /\ lastCall.op = "select"
    /\ now > 0
    /\ \E oid \in Oids :
          /\ markedUntil[oid][lastCall.family] > now
          /\ lastCall.ret \notin {NoOid, oid}

(***************************************************************************)
(* SpecSelect: a process starts at time REFRESH_FAILURE_COOLDOWN_MS from   *)
(* any stored file of up to three accounts and performs one pool           *)
(* operation on the pool it builds, possibly after one rotation.           *)
(***************************************************************************)
PoolFamilies == {"claude", "gemini-flash"}

InitSelect ==
    /\ InitCommon
    /\ now = REFRESH_FAILURE_COOLDOWN_MS
    /\ \E n \in {1, 2, 3} :
          IsStoredFile(file, n, {Absent, now, now + REFRESH_FAILURE_COOLDOWN_MS})

\* the pool is as built, or as built and rotated once by a round-robin
\* selection for gemini-pro
FreshPool ==
    \/ lastCall.op = "getManager"
    \/ lastCall.op = "select" /\ lastCall.family = "gemini-pro"

NextSelect ==
    \/ GetManager(NoSeed)
          /\ UNCHANGED <<markedUntil, maxMarkedUntil, rrHist, progress, managerCalls, nextCheckAt, waiters>>
    \/ lastCall.op = "getManager" /\ SelectAccount("gemini-pro", "round-robin")
          /\ UNCHANGED <<markedUntil, maxMarkedUntil, rrHist, progress, managerCalls, nextCheckAt, waiters>>
    \/ \E f \in PoolFamilies, mode \in Modes :
          FreshPool /\ SelectAccount(f, mode)
          /\ UNCHANGED <<markedUntil, maxMarkedUntil, rrHist, progress, managerCalls, nextCheckAt, waiters>>
    \/ \E oid \in Oids, f \in PoolFamilies :
          FreshPool /\ MarkRateLimited(oid, SILENT_RATE_LIMIT_MS, f)
          /\ UNCHANGED <<markedUntil, maxMarkedUntil, rrHist, progress, managerCalls, nextCheckAt, waiters>>

SpecSelect == InitSelect /\ [][NextSelect]_vars

Eligible(a, family, t) ==
    ~(a.rateLimitResetTimes[family] # Absent /\ a.rateLimitResetTimes[family] > t)
    /\ a.hasAccess # "false"

\* C9: markRateLimited(a, d, f) changes only a.rateLimitResetTimes[f] and
\* a.lastSwitchReason, and for every other family g selectAccountForFamily(g, mode)
\* and getMinWaitTimeForFamily(g) return, now and later, what they would have
\* returned without the mark.
C9_FamilyIsolation ==
    [][lastCall'.op = "markRateLimited" =>
        LET f == lastCall'.family
            before == accountManagerInstance
            after == accountManagerInstance'
            p == PosOf(before, lastCall'.ret)
        IN  /\ after = [before EXCEPT
                  !.accounts[p].rateLimitResetTimes[f] =
                      after.accounts[p].rateLimitResetTimes[f],
                  !.accounts[p].lastSwitchReason = after.accounts[p].lastSwitchReason]
            /\ \A g \in Families \ {f}, mode \in Modes,
                  t \in {now, now + REFRESH_FAILURE_COOLDOWN_MS, now + SILENT_RATE_LIMIT_MS} :
                  /\ selectAccountForFamily(after, g, mode, t).ret =
                         selectAccountForFamily(before, g, mode, t).ret
                  /\ getMinWaitTimeForFamily(after, g, t).ret =
                         getMinWaitTimeForFamily(before, g, t).ret
    ]_vars

\* an account of a pool of three was marked for gemini-flash while an account
\* is rate-limited for claude
C9_Witness ==
    /\ lastCall.op = "markRateLimited"
    /\ lastCall.family = "gemini-flash"
    /\ Len(accountManagerInstance.accounts) = 3
    /\ \E i \in DOMAIN accountManagerInstance.accounts :
          accountManagerInstance.accounts[i].rateLimitResetTimes["claude"] > now
    /\ Acct(accountManagerInstance, lastCall.ret).rateLimitResetTimes["gemini-flash"]
           = now + SILENT_RATE_LIMIT_MS

\* the case of C10, on the pool m before a sticky selection for family: the
\* current account is not rate-limited and not paid, and another account is
\* paid, not rate-limited and not known invalid
UpgradeCase(m, family, t) ==
    /\ getCurrentAccount(m) # NoOid
    /\ LET cur == Acct(m, getCurrentAccount(m))
       IN  /\ ~(cur.rateLimitResetTimes[family] # Absent
                /\ cur.rateLimitResetTimes[family] > t)
           /\ cur.tier # "paid"
           /\ \E i \in DOMAIN m.accounts :
                 /\ m.accounts[i].oid # cur.oid
                 /\ m.accounts[i].tier = "paid"
                 /\ Eligible(m.accounts[i], family, t)

StickySelectStep == lastCall'.op = "select" /\ lastCall'.mode = "sticky"

\* C10 as claimed: in that case the sticky selection returns a paid account and
\* makes it the current account.
C10_UpgradeReturnsPaid ==
    [][StickySelectStep /\ UpgradeCase(accountManagerInstance, lastCall'.family, now) =>
        /\ lastCall'.ret # NoOid
        /\ Acct(accountManagerInstance', lastCall'.ret).tier = "paid"
        /\ accountManagerInstance'.currentAccountIndex =
               PosOf(accountManagerInstance', lastCall'.ret) - 1
    ]_vars

\* C10 as amended: in that case the sticky selection returns an eligible account
\* and makes it the current account; the account is paid, unless some eligible
\* account has hasAccess = true and no eligible paid account has, and then it
\* is an account with hasAccess = true.
C10_UpgradeReturnsPreferred ==
    [][StickySelectStep /\ UpgradeCase(accountManagerInstance, lastCall'.family, now) =>
        LET m == accountManagerInstance
            f == lastCall'.family
            eligible == {i \in DOMAIN m.accounts : Eligible(m.accounts[i], f, now)}
            confirmed == {i \in eligible : m.accounts[i].hasAccess = "true"}
            paidConfirmed == {i \in confirmed : m.accounts[i].tier = "paid"}
        IN  /\ lastCall'.ret # NoOid
            /\ PosOf(m, lastCall'.ret) \in eligible
            /\ accountManagerInstance'.currentAccountIndex =
                   PosOf(accountManagerInstance', lastCall'.ret) - 1
            /\ IF confirmed # {} /\ paidConfirmed = {}
               THEN Acct(m, lastCall'.ret).hasAccess = "true"
               ELSE Acct(m, lastCall'.ret).tier = "paid"
    ]_vars

\* a sticky selection has moved the current account from the stored active
\* account, not paid and not rate-limited, to a paid account
C10_Witness ==
    /\ lastCall.op = "select"
    /\ lastCall.mode = "sticky"
    /\ lastCall.ret # NoOid
    /\ Acct(accountManagerInstance, lastCall.ret).tier = "paid"
    /\ accountManagerInstance.currentAccountIndex # file.activeIndex
    /\ accountManagerInstance.currentAccountIndex =
           PosOf(accountManagerInstance, lastCall.ret) - 1
    /\ LET old == accountManagerInstance.accounts[file.activeIndex + 1]
       IN  old.tier = "free" /\ old.rateLimitResetTimes[lastCall.family] = Absent

(***************************************************************************)
(* SpecRR: round-robin selections for two families on a pool of two or     *)
(* three accounts while the clock stands still; one mark for claude        *)
(* changes its candidate pool.                                             *)
(***************************************************************************)
InitRR ==
    /\ InitCommon
    /\ now = 0
    /\ \E n \in {2, 3} : IsStoredFile(file, n, {Absent})

NextRR ==
    \/ GetManager(NoSeed)
          /\ TrackRoundRobin /\ UNCHANGED <<markedUntil, maxMarkedUntil, progress, managerCalls, nextCheckAt, waiters>>
    \/ \E f \in PoolFamilies :
          SelectAccount(f, "round-robin")
          /\ TrackRoundRobin /\ UNCHANGED <<markedUntil, maxMarkedUntil, progress, managerCalls, nextCheckAt, waiters>>
    \/ \E oid \in Oids :
          /\ MarkRateLimited(oid, SILENT_RATE_LIMIT_MS, "claude")
          /\ \A i \in DOMAIN accountManagerInstance.accounts :
                accountManagerInstance.accounts[i].rateLimitResetTimes["claude"] = Absent
          /\ TrackRoundRobin /\ UNCHANGED <<markedUntil, maxMarkedUntil, progress, managerCalls, nextCheckAt, waiters>>

SpecRR == InitRR /\ [][NextRR]_vars

\* the picks i..j of a history were made with no other advance of
\* rotationIndex in between
Uninterrupted(h, i, j) == \A k \in i..(j - 1) : h[k + 1][2] = h[k][2] + 1

\* C8 as claimed: while the candidate pool P of a family is unchanged, the
\* round-robin selections for it that follow a successful one, up to |P| of
\* them, return pairwise distinct elements of P, whatever is selected for
\* other families in between.
C8_NextPicksDistinct ==
    \A f \in Families :
        LET h == rrHist[f]
        IN  \A i \in 2..Len(h) :
                /\ h[i][1] \in Cand(accountManagerInstance, f, now)
                /\ \A j \in (i + 1)..Len(h) : h[i][1] # h[j][1]

\* C8 as amended: the same for the selections between which nothing else
\* advanced rotationIndex.
C8_UninterruptedPicksDistinct ==
    \A f \in Families :
        LET h == rrHist[f]
        IN  \A i \in 2..Len(h) :
                /\ h[i][1] \in Cand(accountManagerInstance, f, now)
                /\ \A j \in (i + 1)..Len(h) :
                       Uninterrupted(h, i, j) => h[i][1] # h[j][1]

\* a successful round-robin selection from a candidate pool of three was
\* followed by three more with nothing in between
C8_Witness ==
    \E f \in Families :
        /\ Cardinality(Cand(accountManagerInstance, f, now)) = 3
        /\ Len(rrHist[f]) = 4
        /\ Uninterrupted(rrHist[f], 1, 4)

(***************************************************************************)
(* SpecBroker: two sessions each call the credential broker once for a     *)
(* claude model on a pool of one or two accounts while the clock advances. *)
(***************************************************************************)
InitBroker ==
    /\ InitCommon
    /\ now = TickUnit
    /\ \E n \in {1, 2} :
          IsBrokerFile(file, n, {Undefined, "false"},
                       {Absent, now + 1500, now + REFRESH_FAILURE_COOLDOWN_MS},
                       {"fresh", "expired"}, now)

NextBroker ==
    \/ GetManager(NoSeed) /\ TrackMarks /\ UNCHANGED <<rrHist, progress, managerCalls, nextCheckAt, waiters>>
    \/ \E s \in Sessions :
          /\ BrokerStart(s, <<"claude", "sonnet">>)
          /\ UNCHANGED <<markedUntil, maxMarkedUntil, rrHist, progress, managerCalls, nextCheckAt, waiters>>
    \/ \E s \in Sessions, ok \in BOOLEAN :
          RefreshDone(s, ok) /\ UNCHANGED <<markedUntil, maxMarkedUntil, rrHist, progress, managerCalls, nextCheckAt, waiters>>
    \/ \E s \in Sessions :
          BrokerSaved(s) /\ UNCHANGED <<markedUntil, maxMarkedUntil, rrHist, progress, managerCalls, nextCheckAt, waiters>>
    \/ /\ Tick(TickUnit)
       /\ now' <= PoolTicks * TickUnit
       /\ UNCHANGED <<markedUntil, maxMarkedUntil, rrHist, progress, managerCalls, nextCheckAt, waiters>>

SpecBroker == InitBroker /\ [][NextBroker]_vars

\* C6: when the refresh of the first selected account fails, that account is
\* rate-limited for the family until 60 s later; from then on the call has
\* invoked the refresher at most twice, has tried at most one further account,
\* different from the first, and ends with that account's refreshed credential
\* or with RefreshFailed.
C6_RefreshFallback ==
    [][\A s \in Sessions :
        /\ (brk[s].failedAt = Absent /\ brk'[s].failedAt # Absent) =>
              Acct(accountManagerInstance', brk[s].account)
                  .rateLimitResetTimes[brk[s].family]
                      = now + REFRESH_FAILURE_COOLDOWN_MS
        /\ brk'[s].refreshCalls <= 2
        /\ brk'[s].failedAt # Absent =>
              /\ brk'[s].nextAccount # brk'[s].account
              /\ brk'[s].pc \in {"refreshNext", "save", "done"}
              /\ brk'[s].pc = "refreshNext" => brk'[s].nextAccount # NoOid
              /\ brk'[s].pc \in {"save", "done"} /\ brk'[s].result # NoResult =>
                    \/ brk'[s].result = RefreshFailed(brk'[s].account)
                    \/ /\ brk'[s].result.kind = "credential"
                       /\ brk'[s].result.account = brk'[s].nextAccount
                       /\ brk'[s].result.access =
                              Token(Acct(accountManagerInstance', brk'[s].nextAccount)
                                        .refreshToken, brk'[s].result.expires)
                       /\ brk'[s].refreshCalls = 2
    ]_vars

\* a call whose first refresh failed has returned the credential of the
\* fallback account
C6_Witness ==
    \E s \in Sessions :
        /\ brk[s].pc = "done"
        /\ brk[s].failedAt # Absent
        /\ brk[s].result.kind = "credential"
        /\ brk[s].result.account = brk[s].nextAccount

BrokerStartStep(s) == brk[s].pc = "idle" /\ brk'[s].pc # "idle"

AllRateLimited(m, family, t) ==
    /\ Len(m.accounts) > 0
    /\ \A i \in DOMAIN m.accounts :
          /\ m.accounts[i].rateLimitResetTimes[family] # Absent
          /\ m.accounts[i].rateLimitResetTimes[family] > t

EarliestReset(m, family, t) ==
    Min({m.accounts[i].rateLimitResetTimes[family] - t : i \in DOMAIN m.accounts})

RaisedRateLimitedAll(s) == brk'[s].result.kind = "RateLimitedAll"

C7_NullWitness ==
    \E s \in Sessions :
        /\ brk[s].pc = "done"
        /\ brk[s].account = NoOid
        /\ brk[s].result = NullResult

(***************************************************************************)
(* SpecDispatch: a session dispatches one request on a pool of one or two  *)
(* accounts while the clock advances; a due watchdog fires before the      *)
(* clock moves on.  SpecDispatchFair adds that every step a run waits  *)
(* for happens: the broker's awaits settle (the refresh has a 15 s         *)
(* timeout), the file is written, and session.prompt settles.              *)
(***************************************************************************)
InitDispatch ==
    /\ InitCommon
    /\ now = TickUnit
    /\ \E n \in {1, 2} : \E tiers \in [1..n -> Tiers], tokens \in [1..n -> {"fresh", "expired"}] :
          file = saveAccountStorage(
                     [BrokerFile(n, [i \in 1..n |-> Undefined], [i \in 1..n |-> Absent],
                                 [i \in 1..n |-> TRUE], tokens, 0, now)
                         EXCEPT !.accounts = [i \in 1..n |-> [@[i] EXCEPT !.tier = tiers[i]]]])

Hist == UNCHANGED <<markedUntil, maxMarkedUntil, rrHist, managerCalls, nextCheckAt, waiters>>

\* a step the run of session s was waiting for is taken
Progress(s) == progress' = [progress EXCEPT ![s] = 1 - @]

NextDispatch ==
    \/ \E provider \in Providers :
          RunStart(1, provider, <<"claude", "sonnet">>) /\ Hist /\ UNCHANGED progress
    \/ \E s \in Sessions :
          run[s].pc = "acquire" /\ GetManager(NoSeed) /\ Hist /\ Progress(s)
    \/ \E s \in Sessions : RunBroker(s) /\ Hist /\ Progress(s)
    \/ \E s \in Sessions, ok \in BOOLEAN : RefreshDone(s, ok) /\ Hist /\ Progress(s)
    \/ \E s \in Sessions : BrokerSaved(s) /\ Hist /\ Progress(s)
    \/ \E s \in Sessions, legacyKey \in BOOLEAN :
          RunAcquired(s, legacyKey) /\ Hist /\ Progress(s)
    \/ \E s \in Sessions, key \in BOOLEAN :
          RunAcquiredOther(s, key) /\ Hist /\ Progress(s)
    \/ \E s \in Sessions : Watchdog(s) /\ Hist /\ Progress(s)
    \/ \E s \in Sessions, promptError \in PromptErrors :
          PromptEnd(s, promptError) /\ Hist /\ Progress(s)
    \/ \E s \in Sessions : RunMarkSaved(s) /\ Hist /\ Progress(s)
    \/ \E s \in Sessions : Activity(s) /\ Hist /\ UNCHANGED progress
    \/ \E s \in Sessions : Abort(s) /\ Hist /\ UNCHANGED progress
    \/ \E s \in Sessions : WallClock(s) /\ Hist /\ UNCHANGED progress
    \/ /\ Tick(2 * TickUnit)
       /\ \A s \in Sessions : ~WatchdogDue(s)
       /\ Hist /\ UNCHANGED progress

SpecDispatch == InitDispatch /\ [][NextDispatch]_vars

\* While a run acquires its credential, prompts or saves a mark, one of the
\* steps it waits for is enabled, so weak fairness of those steps is weak
\* fairness of their flipping progress[s].
Waiting(s) == run[s].pc \in {"acquire", "prompt", "marking"}

Awaited(s) == Waiting(s) /\ Progress(s)

SpecDispatchFair == SpecDispatch /\ \A s \in Sessions : WF_progress(Awaited(s))

TimeoutAttemptEnds(s) ==
    /\ Len(run'[s].log) = Len(run[s].log) + 1
    /\ run'[s].log[Len(run'[s].log)].ending = "ActivityTimeout"
    /\ run'[s].log[Len(run'[s].log)].served # NoOid

\* the reset time of a 120 s mark made between markedAt and t
IsSilentLimit(resetTime, markedAt, t) ==
    /\ markedAt # Absent
    /\ resetTime >= markedAt + SILENT_RATE_LIMIT_MS
    /\ resetTime <= t + SILENT_RATE_LIMIT_MS

\* C3: when an attempt served by pool account X ends with the activity
\* timeout, X is rate-limited for the family in the pool and in the saved file
\* until about 120 s later, and a selection for the family does not return X.
C3_TimeoutMarksServedAccount ==
    [][\A s \in Sessions : TimeoutAttemptEnds(s) =>
        LET e == run'[s].log[Len(run'[s].log)]
            f == getModelFamily(run[s].modelId)
            m == accountManagerInstance'
            p == PosOf(m, e.served)
        IN  /\ IsSilentLimit(m.accounts[p].rateLimitResetTimes[f], e.markedAt, now)
            /\ IsSilentLimit(loadAccountStorage(file').accounts[p].rateLimitResetTimes[f],
                            e.markedAt, now)
            /\ \A mode \in Modes : selectAccountForFamily(m, f, mode, now).ret # e.served
    ]_vars

RetryAcquired(s) ==
    /\ run[s].pc = "acquire"
    /\ run[s].attempt > 1
    /\ run'[s].pc = "prompt"
    /\ run'[s].served # NoOid

RunEnds(s) == run[s].pc # "done" /\ run'[s].pc = "done"

\* C4: after an activity timeout in an attempt served by X, if another account
\* is eligible for the family the credential acquired for the retry belongs to
\* an account other than X, and when the run ends a 120 s rate limit is
\* recorded against X.
C4_RetryUsesAnotherAccount ==
    [][\A s \in Sessions :
        LET f == getModelFamily(run[s].modelId)
            m == accountManagerInstance
        IN  /\ RetryAcquired(s) =>
                  LET X == run[s].log[Len(run[s].log)].served
                  IN  (\E i \in DOMAIN m.accounts :
                          /\ m.accounts[i].oid # X
                          /\ Eligible(m.accounts[i], f, now))
                      => run'[s].served # X
            /\ RunEnds(s) =>
                  \A k \in DOMAIN run'[s].log :
                      LET e == run'[s].log[k]
                      IN  (e.ending = "ActivityTimeout" /\ e.served # NoOid) =>
                              IsSilentLimit(Acct(m, e.served).rateLimitResetTimes[f],
                                            e.markedAt, now)
    ]_vars

AttemptsAllowed(provider) ==
    IF provider = "google-antigravity" THEN ANTIGRAVITY_MAX_RETRIES ELSE 1

RunAttemptsBounded(r) ==
    /\ r.attempt <= AttemptsAllowed(r.provider)
    /\ Len(r.log) \in {r.attempt - 1, r.attempt} \cap Nat
    /\ \A k \in 1..(r.attempt - 1) : r.log[k].ending = "ActivityTimeout"
    /\ (r.pc = "done" /\ r.attempt > 0) =>
          /\ Len(r.log) = r.attempt
          /\ r.provider # "google-antigravity" => r.attempt = 1
          /\ r.log[r.attempt].ending = "ActivityTimeout" =>
                /\ r.attempt = AttemptsAllowed(r.provider)
                /\ r.outcome = "ActivityTimeout"
          /\ r.outcome = r.log[r.attempt].ending

C5_WitnessOther ==
    /\ run[1].pc = "done"
    /\ run[1].provider = "anthropic"
    /\ run[1].attempt = 1
    /\ run[1].outcome = "returned"

PromptErrorAttemptEnds(s) ==
    /\ Len(run'[s].log) = Len(run[s].log) + 1
    /\ run'[s].log[Len(run'[s].log)].ending = "PromptError"
    /\ run'[s].provider = "google-antigravity"
    /\ run'[s].log[Len(run'[s].log)].served # NoOid

\* C14: for google-antigravity, when the request of an attempt that was not
\* aborted fails with an error whose message contains one of 429, rate, quota,
\* limit, timeout, ECONNRESET, ETIMEDOUT, the serving account is rate-limited
\* for the family until 120 s later and the error is the outcome of the run,
\* with no retry; any other error is the outcome of the run and nothing is
\* marked.
C14_RateLimitErrorMarksAccount ==
    [][\A s \in Sessions : PromptErrorAttemptEnds(s) =>
        LET e == run'[s].log[Len(run'[s].log)]
            f == getModelFamily(run[s].modelId)
            m == accountManagerInstance'
        IN  /\ run'[s].pc = "done"
            /\ run'[s].outcome = "PromptError"
            /\ IF isRateLimitError(run'[s].promptError)
               THEN IsSilentLimit(Acct(m, e.served).rateLimitResetTimes[f],
                                  e.markedAt, now)
               ELSE /\ e.markedAt = Absent
                    /\ accountManagerInstance' = accountManagerInstance
    ]_vars

\* the attempts of a run in which the run timeout expired and the activity
\* checker did not find the stream silent
WallClockAttempts(r) ==
    {k \in DOMAIN r.log : r.log[k].wallClock /\ r.log[k].ending # "ActivityTimeout"}

\* C15 as claimed: when the run timeout expires during an attempt the request
\* is cancelled, the attempt is the last of the run, and the run ends with an
\* error.
C15_WallClockRaises ==
    \A s \in Sessions :
        /\ run[s].abortTimer = "fired" => run[s].aborted /\ run[s].abortCalls >= 1
        /\ \A k \in DOMAIN run[s].log :
              run[s].log[k].wallClock =>
                  /\ k = Len(run[s].log)
                  /\ run[s].pc = "done"
                  /\ run[s].outcome # "returned"

\* C15 as amended: when the run timeout expires during an attempt the request
\* is cancelled; unless the activity checker also finds the stream silent in
\* that attempt, the attempt is the last of the run, nothing is marked, and the
\* run returns its result with aborted set, the error of the request, if any,
\* being dropped.
C15_WallClockReturnsAborted ==
    \A s \in Sessions :
        /\ run[s].abortTimer = "fired" => run[s].aborted /\ run[s].abortCalls >= 1
        /\ \A k \in WallClockAttempts(run[s]) :
              /\ k = Len(run[s].log)
              /\ run[s].pc = "done"
              /\ run[s].outcome = "returned"
              /\ run[s].aborted
              /\ run[s].log[k].markedAt = Absent

\* a run has returned after the run timeout expired in an attempt whose
\* request failed with a rate-limit error
C15_Witness ==
    /\ run[1].pc = "done"
    /\ run[1].outcome = "returned"
    /\ run[1].abortTimer = "fired"
    /\ run[1].aborted
    /\ isRateLimitError(run[1].promptError)
    /\ WallClockAttempts(run[1]) = {1}

TimerFires(s) == lastCall'.op \in {"watchdog", "wallclock"} /\ lastCall'.arg = s

\* C16: outside the prompt of an attempt neither the activity checker nor the
\* run timeout is armed, however the attempt ended, and a timer fires only
\* during the prompt of the attempt that armed it.
C16_TimersCleared ==
    [][\A s \in Sessions :
        /\ run'[s].pc # "prompt" =>
              /\ run'[s].activityChecker # "armed"
              /\ run'[s].abortTimer # "armed"
        /\ TimerFires(s) =>
              /\ run[s].pc = "prompt"
              /\ run[s].armedIn = run[s].attempt
    ]_vars

\* the second attempt of a run is being prompted with its own timers armed,
\* after a first attempt in which both timers had fired
C16_Witness ==
    /\ run[1].pc = "prompt"
    /\ run[1].attempt = 2
    /\ run[1].armedIn = 2
    /\ run[1].activityChecker = "armed"
    /\ run[1].abortTimer = "armed"
    /\ run[1].log[1].wallClock
    /\ run[1].log[1].ending = "ActivityTimeout"

\* C17: within an attempt session.abort() is called exactly once if the
\* activity checker finds the stream silent, the run timeout expires or the
\* run is aborted from outside, and never more than once.
C17_AbortFiredOnce ==
    \A s \in Sessions :
        /\ run[s].abortCalls <= 1
        /\ run[s].aborted => run[s].abortCalls = 1

(***************************************************************************)
(* SpecManager: sessions call getAntigravityAccountManager concurrently,   *)
(* one action per stretch of code between two awaits, and the singleton    *)
(* is reset.                                                               *)
(***************************************************************************)
\* getAntigravityAccountManager() up to its await, or to its return when an
\* instance exists
GetManagerCall(s) ==
    /\ managerCalls.pc[s] = "idle"
    /\ managerCalls' =
           IF accountManagerInstance # NoManager
           THEN [managerCalls EXCEPT !.obtained = @ \cup {managerCalls.current}]
           ELSE [managerCalls EXCEPT !.pc[s] = "loading"]
    /\ lastCall' = Call("managerCall", "none", "none", NoOid, s)
    /\ UNCHANGED <<now, accountManagerInstance, file, nextOid, brk, run>>

\* loadAccountStorage() settles: the instance is constructed, assigned and
\* returned
GetManagerLoaded(s) ==
    /\ managerCalls.pc[s] = "loading"
    /\ LET m == NewManager(NoSeed, loadAccountStorage(file), now, nextOid)
       IN  /\ nextOid + Len(m.accounts) <= MaxOid + 1
           /\ accountManagerInstance' = m
           /\ nextOid' = nextOid + Len(m.accounts)
    /\ managerCalls' = [managerCalls EXCEPT
           !.created = @ + 1,
           !.current = managerCalls.created + 1,
           !.obtained = @ \cup {managerCalls.created + 1},
           !.pc[s] = "idle"]
    /\ lastCall' = Call("managerLoaded", "none", "none", NoOid, s)
    /\ UNCHANGED <<now, file, brk, run>>

resetAntigravityAccountManager ==
    /\ accountManagerInstance # NoManager
    /\ accountManagerInstance' = NoManager
    /\ managerCalls' = [managerCalls EXCEPT !.current = 0, !.obtained = {}]
    /\ lastCall' = Call("reset", "none", "none", NoOid, 0)
    /\ UNCHANGED <<now, file, nextOid, brk, run>>

InitManager ==
    /\ InitCommon
    /\ now = 0
    /\ \E n \in {1, 2} : IsStoredFile(file, n, {Absent})

HistManager == UNCHANGED <<markedUntil, maxMarkedUntil, rrHist, progress, nextCheckAt, waiters>>

NextManager ==
    \/ \E s \in Sessions : GetManagerCall(s) /\ HistManager
    \/ \E s \in Sessions : GetManagerLoaded(s) /\ HistManager
    \/ resetAntigravityAccountManager /\ HistManager

SpecManager == InitManager /\ [][NextManager]_vars

\* C18: however the calls of getAntigravityAccountManager interleave, the
\* callers served since the last reset have all obtained the same instance.
C18_SameInstance == Cardinality(managerCalls.obtained) <= 1

(***************************************************************************)
(* SpecCredential: two sessions each call the credential broker once on a  *)
(* pool of one or two accounts that differ in having a project and in the  *)
(* token they hold, while the clock advances.                              *)
(***************************************************************************)
TokenStates == {"fresh", "expired", "zero", "unexpiring", "missing"}

InitCredential ==
    /\ InitCommon
    /\ now = TickUnit
    /\ \E n \in {1, 2} :
          IsBrokerFile(file, n, {Undefined}, {Absent}, TokenStates, now)

SpecCredential == InitCredential /\ [][NextBroker]_vars

\* the result of the call of session s becomes a credential
CredentialStep(s) ==
    brk[s].result.kind # "credential" /\ brk'[s].result.kind = "credential"

\* C11: a credential the broker returns has an access token and a projectId,
\* and its refresh token, projectId, access token and expiry (0 for none) are
\* those of one account of the pool: the selected account, or the fallback
\* account once the refresh of the selected one has failed; when the selected
\* account has no projectId the broker returns null and the refresher is not
\* called.
C11_CredentialOfOneAccount ==
    [][\A s \in Sessions :
        /\ (/\ BrokerStartStep(s)
            /\ brk'[s].account # NoOid
            /\ Acct(accountManagerInstance', brk'[s].account).projectId = Undefined)
           => /\ brk'[s].pc = "done"
              /\ brk'[s].result = NullResult
              /\ brk'[s].refreshCalls = 0
        /\ CredentialStep(s) =>
              LET r == brk'[s].result
                  X == IF brk'[s].failedAt = Absent THEN brk'[s].account
                       ELSE brk'[s].nextAccount
                  a == Acct(accountManagerInstance', X)
              IN  /\ X # NoOid
                  /\ InPool(accountManagerInstance', X)
                  /\ r.access # NoAccess
                  /\ r.projectId # Undefined
                  /\ r.refreshToken = a.refreshToken
                  /\ r.projectId = a.projectId
                  /\ r.access = a.access
                  /\ r.expires = (IF a.expires = Absent THEN 0 ELSE a.expires)
    ]_vars

\* a call has returned the refreshed credential of the second account of the
\* pool, its fallback, and the other call the stored credential of an account
\* whose token has no expiry
C11_Witness ==
    \E s, t \in Sessions :
        /\ brk[s].pc = "done"
        /\ brk[s].result.kind = "credential"
        /\ brk[s].failedAt # Absent
        /\ brk[s].result.refreshToken = RefreshTokens[2]
        /\ brk[t].pc = "done"
        /\ brk[t].result.kind = "credential"
        /\ brk[t].refreshCalls = 0
        /\ brk[t].result.expires = 0

\* the token-freshness check as specified
Stale(acc, t) == acc.access = NoAccess \/ (acc.expires # Absent /\ t >= acc.expires)

\* C12: the broker takes the path that returns the stored token without a
\* refresh only when the selected account's token is not stale, and for an
\* account whose token is stale (access empty, or expires set and now >=
\* expires, expires = 0 included) it calls the refresher first.
C12_StaleTokenIsRefreshed ==
    [][\A s \in Sessions :
        (/\ BrokerStartStep(s)
         /\ brk'[s].account # NoOid
         /\ Acct(accountManagerInstance', brk'[s].account).projectId # Undefined)
        => LET a == Acct(accountManagerInstance', brk'[s].account)
           IN  /\ brk'[s].pc = "save" => ~Stale(a, now)
               /\ Stale(a, now) => brk'[s].pc = "refresh" /\ brk'[s].refreshCalls = 1
    ]_vars

IndexOf(sel) == IF sel.ret = NoOid THEN Absent ELSE Acct(sel.m, sel.ret).index

\* the broker call of session s returns a credential selected round-robin
RoundRobinReturn(s) ==
    /\ brk[s].pc = "save"
    /\ brk'[s].pc = "done"
    /\ brk'[s].result.kind = "credential"
    /\ brk'[s].mode = "round-robin"

\* C13: after a broker call that returns a credential in round-robin mode, a
\* pool rebuilt from the saved file selects for the same family the account
\* the running pool selects next.
C13_RotationSurvivesRestart ==
    [][\A s \in Sessions : RoundRobinReturn(s) =>
        LET f == brk'[s].family
            kept == selectAccountForFamily(accountManagerInstance', f, "round-robin", now)
            rebuilt == NewManager(NoSeed, loadAccountStorage(file'), now, nextOid)
            again == selectAccountForFamily(rebuilt, f, "round-robin", now)
        IN  IndexOf(again) = IndexOf(kept)
    ]_vars

\* a storage value without the field save() derives from lastUsed and the clock
Persisted(storage) ==
    [storage EXCEPT !.accounts = [i \in DOMAIN @ |-> [@[i] EXCEPT !.addedAt = 0]]]

\* C19: when the concurrent broker calls have all returned a credential, the
\* stored file holds the state the pool is in.
C19_LastSaveIsLatest ==
    (\A s \in Sessions : brk[s].pc = "done" /\ brk[s].result.kind = "credential")
        => Persisted(loadAccountStorage(file)) = Persisted(save(accountManagerInstance, now))

(***************************************************************************)
(* SpecStore: one process at a time works on the pool: it selects         *)
(* accounts, adds and removes accounts and tests the first account as the  *)
(* accounts commands do, saves the pool, and is restarted.                 *)
(***************************************************************************)
\* manager.addAccount(...) with the credentials of a login
AddAccount(k, tier) ==
    /\ accountManagerInstance # NoManager
    /\ nextOid <= MaxOid
    /\ Len(accountManagerInstance.accounts) < StoreAccounts
    /\ LET r == addAccount(accountManagerInstance, RefreshTokens[k], ProjectIds[k],
                           NoAccess, Absent, Undefined, tier, nextOid)
       IN  /\ r.ret
           /\ accountManagerInstance' = r.m
    /\ nextOid' = nextOid + 1
    /\ lastCall' = Call("addAccount", "none", "none", nextOid, k)
    /\ UNCHANGED <<now, file, brk, run>>

RemoveAccount(index) ==
    /\ accountManagerInstance # NoManager
    /\ LET r == removeAccount(accountManagerInstance, index)
       IN  /\ r.ret
           /\ accountManagerInstance' = r.m
    /\ lastCall' = Call("removeAccount", "none", "none", NoOid, index)
    /\ UNCHANGED <<now, file, nextOid, brk, run>>

\* the test of an account fails or succeeds
MarkCredentials(oid, valid) ==
    /\ accountManagerInstance # NoManager
    /\ Len(accountManagerInstance.accounts) > 0
    /\ InPool(accountManagerInstance, oid)
    /\ accountManagerInstance' =
           IF valid THEN markValidCredentials(accountManagerInstance, oid)
           ELSE markInvalidCredentials(accountManagerInstance, oid,
                                       "Invalid credentials", now)
    /\ lastCall' = Call("markCredentials", "none", "none", oid, 0)
    /\ UNCHANGED <<now, file, nextOid, brk, run>>

\* await manager.save() with no other save in progress
Save ==
    /\ accountManagerInstance # NoManager
    /\ file' = Written(Snapshot(accountManagerInstance, now), accountManagerInstance)
    /\ lastCall' = Call("save", "none", "none", NoOid, 0)
    /\ UNCHANGED <<now, accountManagerInstance, nextOid, brk, run>>

InitStore ==
    /\ InitCommon
    /\ now = TickUnit
    /\ \E tier \in Tiers, reset \in {Absent, SILENT_RATE_LIMIT_MS} :
          file = saveAccountStorage(StoredFile(1, <<tier>>, <<Undefined>>, <<reset>>, 0))

NextStore ==
    \/ GetManager(NoSeed) /\ HistManager /\ UNCHANGED managerCalls
    \/ \E mode \in Modes :
          /\ SelectAccount("claude", mode)
          /\ accountManagerInstance.rotationIndex < StoreRotation
          /\ HistManager /\ UNCHANGED managerCalls
    \/ AddAccount(Len(accountManagerInstance.accounts) + 1, "paid")
          /\ HistManager /\ UNCHANGED managerCalls
    \/ \E index \in 0..(StoreAccounts - 1) :
          RemoveAccount(index) /\ HistManager /\ UNCHANGED managerCalls
    \/ \E valid \in BOOLEAN :
          MarkCredentials(accountManagerInstance.accounts[1].oid, valid)
          /\ Len(accountManagerInstance.accounts) > 0
          /\ HistManager /\ UNCHANGED managerCalls
    \/ Save /\ HistManager /\ UNCHANGED managerCalls
    \/ resetAntigravityAccountManager /\ HistManager

SpecStore == InitStore /\ [][NextStore]_vars

\* the pool built by a process that starts from the storage value loaded
Rebuilt(loaded) == NewManager(NoSeed, loaded, now, 1)

\* C20: a storage value written with saveAccountStorage is loaded back
\* unchanged by loadAccountStorage, and a pool rebuilt from the file save()
\* writes has the same accounts, field by field, and the same current
\* account index.
C20_RoundTrip ==
    /\ loadAccountStorage(file) # NoFile =>
          loadAccountStorage(saveAccountStorage(loadAccountStorage(file)))
              = loadAccountStorage(file)
    /\ accountManagerInstance # NoManager =>
          LET m == accountManagerInstance
              storage == save(m, now)
              loaded == loadAccountStorage(saveAccountStorage(storage))
              rebuilt == Rebuilt(loaded)
          IN  /\ loaded = storage
              /\ Len(rebuilt.accounts) = Len(m.accounts)
              /\ \A i \in DOMAIN m.accounts :
                    [rebuilt.accounts[i] EXCEPT !.oid = m.accounts[i].oid] = m.accounts[i]
              /\ rebuilt.currentAccountIndex = m.currentAccountIndex

\* a restarted process has rebuilt a pool of two accounts from the saved file:
\* the second account, added without a token, is the current one and the
\* first is marked invalid
C20_Witness ==
    /\ lastCall.op = "getManager"
    /\ nextOid > 3
    /\ Len(accountManagerInstance.accounts) = 2
    /\ accountManagerInstance.currentAccountIndex = 1
    /\ accountManagerInstance.accounts[1].hasAccess = "false"
    /\ accountManagerInstance.accounts[2].access = NoAccess
    /\ accountManagerInstance.accounts[2].lastUsed > 0

(***************************************************************************)
(* SpecLoad: a process starts from any accounts file, written by the       *)
(* program or by hand: missing, not JSON, the JSON value null, or an       *)
(* object with or without a version, an accounts array and an activeIndex. *)
(* It loads the file and builds its pool from it.                          *)
(***************************************************************************)
LoadAccounts == 2       \* accounts of a file that is loaded
Versions == {1, STORAGE_VERSION, 3}

\* the text of an object that has the properties props
RawFile(props, version, n, tiers, active) ==
    [p \in props |->
        CASE p = "version" -> version
          [] p = "accounts" -> saveAccountStorage(
                 StoredFile(n, tiers, [i \in 1..n |-> Undefined],
                            [i \in 1..n |-> Absent], 0)).accounts
          [] OTHER -> active]

IsRawFile(f) ==
    \/ f \in {NoFile, Malformed, JsonNull}
    \/ \E props \in SUBSET {"version", "accounts", "activeIndex"},
          version \in Versions, n \in 0..LoadAccounts,
          active \in -1..LoadAccounts :
          \E tiers \in [1..n -> Tiers] :
              f = RawFile(props, version, n, tiers, active)

\* await loadAccountStorage()
LoadStorage ==
    /\ lastCall.op = "none"
    /\ lastCall' = Call("loadAccountStorage", "none", "none",
                        loadAccountStorage(file), 0)
    /\ UNCHANGED <<now, accountManagerInstance, file, nextOid, brk, run>>

InitLoad ==
    /\ InitCommon
    /\ now = 0
    /\ IsRawFile(file)

NextLoad ==
    \/ LoadStorage /\ HistManager /\ UNCHANGED managerCalls
    \/ GetManager(NoSeed) /\ HistManager /\ UNCHANGED managerCalls

SpecLoad == InitLoad /\ [][NextLoad]_vars

\* the file holds an object with an accounts array and version 2
Accepted(f) ==
    /\ f \notin {NoFile, Malformed, JsonNull}
    /\ "accounts" \in DOMAIN f
    /\ "version" \in DOMAIN f
    /\ f.version = 2

\* C21: loadAccountStorage returns null when the file is missing, is not
\* JSON, has no accounts array or has a version other than 2; otherwise it
\* returns the stored data, with activeIndex replaced by 0 when it is not a
\* number or lies outside [0, len(accounts) - 1]; it raises in no case.
C21_LoadReturnsNullOrData ==
    lastCall.op = "loadAccountStorage" =>
        LET r == lastCall.ret
        IN  IF ~Accepted(file) THEN r = NoFile
            ELSE /\ r # NoFile
                 /\ DOMAIN r = DOMAIN file \cup {"activeIndex"}
                 /\ r.version = file.version
                 /\ r.accounts = JsonParse(file).accounts
                 /\ r.activeIndex =
                        IF /\ "activeIndex" \in DOMAIN file
                           /\ file.activeIndex >= 0
                           /\ file.activeIndex <= Len(file.accounts) - 1
                        THEN file.activeIndex ELSE 0

\* a file of two accounts whose activeIndex is past the last account has been
\* loaded
C21_Witness ==
    /\ lastCall.op = "loadAccountStorage"
    /\ Accepted(file)
    /\ Len(file.accounts) = 2
    /\ "activeIndex" \in DOMAIN file
    /\ file.activeIndex = 2
    /\ lastCall.ret.activeIndex = 0

(***************************************************************************)
(* SpecCap: a process works on a pool that is empty, small or              *)
(* at the limit of MAX_ACCOUNTS: it builds the pool from the file, selects *)
(* accounts, switches the current account, adds accounts, removes accounts *)
(* at any index, and ends by persisting seed accounts.                     *)
(***************************************************************************)
CapOid == 11            \* account objects ever created where the pool is full
CapSlack == 2           \* accounts are removed from a pool that close to empty or full

ManyTokens == <<"rt01", "rt02", "rt03", "rt04", "rt05", "rt06", "rt07", "rt08",
                "rt09", "rt10", "rt11", "rt12", "rt13", "rt14", "rt15", "rt16">>

\* the seed of a login: AntigravityAccountSeed
Seed(refresh, tier) ==
    [refresh |-> refresh, projectId |-> ProjectIds[1], access |-> NoAccess,
     expires |-> Absent, email |-> Undefined, tier |-> tier]

\* a file of n accounts of the free tier without tokens
CapFile(n, active) ==
    [version |-> STORAGE_VERSION,
     accounts |-> [i \in 1..n |->
         [StoredAccount(1, "free", Undefined, ProjectIds[1], NoAccess, Absent)
             EXCEPT !.refreshToken = ManyTokens[i]]],
     activeIndex |-> active]

\* a search that finds no account
findAccountNever(m, refreshToken) == NoOid

findAccountByRefreshToken(m, refreshToken) ==
    LET found == {i \in DOMAIN m.accounts : m.accounts[i].refreshToken = refreshToken}
    IN  IF found = {} THEN NoOid ELSE m.accounts[Min(found)].oid

\* updateAccount(existing, seed.access, seed.expires, seed.refresh,
\*               seed.projectId, seed.email, seed.tier)
updateAccountFromSeed(m, oid, seed) ==
    LET p == PosOf(m, oid)
    IN  [m EXCEPT !.accounts[p].access = IF seed.access # NoAccess THEN seed.access ELSE @,
                  !.accounts[p].expires = IF seed.expires # Absent THEN seed.expires ELSE @,
                  !.accounts[p].refreshToken =
                      IF seed.refresh # Undefined THEN seed.refresh ELSE @,
                  !.accounts[p].projectId =
                      IF seed.projectId # Undefined THEN seed.projectId ELSE @,
                  !.accounts[p].email = IF seed.email # Undefined THEN seed.email ELSE @,
                  !.accounts[p].tier = IF seed.tier # Undefined THEN seed.tier ELSE @]

\* one iteration of the loop of persistAntigravityAccounts; st.oid is the
\* identity of the next account object created
persistSeed(st, seed) ==
    LET existing == findAccountByRefreshToken(st.m, seed.refresh)
        added == addAccount(st.m, seed.refresh, seed.projectId, seed.access,
                            seed.expires, seed.email, seed.tier, st.oid)
    IN  IF existing # NoOid
        THEN [m |-> updateAccountFromSeed(st.m, existing, seed), oid |-> st.oid]
        ELSE [m |-> added.m, oid |-> IF added.ret THEN st.oid + 1 ELSE st.oid]

\* persistAntigravityAccounts(seeds) on the manager m it obtained: the pool
\* it saves
persistAntigravityAccounts(m, seeds, oid) ==
    LET st[i \in 0..Len(seeds)] ==
            IF i = 0 THEN [m |-> m, oid |-> oid] ELSE persistSeed(st[i - 1], seeds[i])
        looped == st[Len(seeds)]
        preferred == findAccountByRefreshToken(looped.m, seeds[1].refresh)
    IN  [looped EXCEPT !.m =
            IF preferred # NoOid THEN markSwitched(@, preferred, "initial")
            ELSE IF getCurrentAccount(@) = NoOid /\ Len(@.accounts) > 0
            THEN markSwitched(@, @.accounts[1].oid, "initial")
            ELSE @]

\* a process calls getAntigravityAccountManager() for the first time
GetManagerCap ==
    /\ accountManagerInstance = NoManager
    /\ nextOid + OidsCreated(NoSeed) <= CapOid + 1
    /\ accountManagerInstance' = getAntigravityAccountManager(NoSeed)
    /\ nextOid' = nextOid + OidsCreated(NoSeed)
    /\ lastCall' = Call("getManager", "none", "none", NoOid, 0)
    /\ UNCHANGED <<now, file, brk, run>>

\* manager.addAccount(...): ret is 1 for true and 0 for false
AddAccountCap(tier) ==
    /\ accountManagerInstance # NoManager
    /\ LET r == addAccount(accountManagerInstance, ManyTokens[nextOid], ProjectIds[1],
                           NoAccess, Absent, Undefined, tier, nextOid)
       IN  /\ r.ret => nextOid <= CapOid
           /\ accountManagerInstance' = r.m
           /\ nextOid' = IF r.ret THEN nextOid + 1 ELSE nextOid
           /\ lastCall' = Call("addAccount", "none", "none", IF r.ret THEN 1 ELSE 0, 0)
    /\ UNCHANGED <<now, file, brk, run>>

\* manager.removeAccount(index): ret is 1 for true and 0 for false
RemoveAccountCap(index) ==
    /\ accountManagerInstance # NoManager
    /\ LET r == removeAccount(accountManagerInstance, index)
       IN  /\ accountManagerInstance' = r.m
           /\ lastCall' = Call("removeAccount", "none", "none",
                               IF r.ret THEN 1 ELSE 0, index)
    /\ UNCHANGED <<now, file, nextOid, brk, run>>

\* manager.markSwitched(account, "initial") for an account of the pool
MarkSwitched(oid) ==
    /\ accountManagerInstance # NoManager
    /\ InPool(accountManagerInstance, oid)
    /\ accountManagerInstance' = markSwitched(accountManagerInstance, oid, "initial")
    /\ lastCall' = Call("markSwitched", "none", "none", oid, 0)
    /\ UNCHANGED <<now, file, nextOid, brk, run>>

\* await persistAntigravityAccounts(seeds), seeds not empty
PersistAccounts(seeds) ==
    /\ Len(seeds) > 0
    /\ LET r == persistAntigravityAccounts(getAntigravityAccountManager(seeds[1]),
                                           seeds, nextOid + OidsCreated(seeds[1]))
       IN  /\ r.oid <= CapOid + 1
           /\ accountManagerInstance' = r.m
           /\ nextOid' = r.oid
           /\ file' = Written(Snapshot(r.m, now), r.m)
    /\ lastCall' = Call("persist", "none", "none", NoOid, seeds)
    /\ UNCHANGED <<now, brk, run>>

InitCap ==
    /\ InitCommon
    /\ now = TickUnit
    /\ \/ file = NoFile
       \/ \E n \in {1, MAX_ACCOUNTS - 1, MAX_ACCOUNTS} :
             \E active \in {0, n - 1} : file = saveAccountStorage(CapFile(n, active))

\* the seeds persistAntigravityAccounts is called with: the first stored
\* account, a new account, or a new account and the first stored one
SeedLists(oid) ==
    {<<Seed(ManyTokens[1], "paid")>>, <<Seed(ManyTokens[oid], "paid")>>,
     <<Seed(ManyTokens[oid], "paid"), Seed(ManyTokens[1], "paid")>>}

\* the indices removeAccount is called with: the two next to the range and,
\* while the pool is within CapSlack accounts of empty or full, the first and
\* the last account
RemoveIndices(m) ==
    IF m = NoManager THEN {}
    ELSE IF Len(m.accounts) > CapSlack /\ Len(m.accounts) <= MAX_ACCOUNTS - CapSlack
    THEN {-1, Len(m.accounts)}
    ELSE {-1, 0, Len(m.accounts) - 1, Len(m.accounts)}

\* the accounts markSwitched is called with: the first and the last
SwitchTargets(m) ==
    IF m = NoManager THEN {}
    ELSE {m.accounts[i].oid : i \in {1, Len(m.accounts)} \cap DOMAIN m.accounts}

\* the process has not yet persisted its accounts, its last operation
Working == lastCall.op # "persist"

\* accounts are added to a pool within CapSlack accounts of empty or full
Growing(m) ==
    Len(m.accounts) < CapSlack \/ Len(m.accounts) >= MAX_ACCOUNTS - CapSlack

NextCap ==
    \/ GetManagerCap /\ Working /\ HistManager /\ UNCHANGED managerCalls
    \/ \E mode \in Modes :
          /\ SelectAccount("claude", mode)
          /\ accountManagerInstance.rotationIndex < StoreRotation
          /\ Working /\ HistManager /\ UNCHANGED managerCalls
    \/ \E oid \in SwitchTargets(accountManagerInstance) :
          MarkSwitched(oid) /\ Working /\ HistManager /\ UNCHANGED managerCalls
    \/ /\ AddAccountCap("paid")
       /\ Growing(accountManagerInstance)
       /\ Working /\ HistManager /\ UNCHANGED managerCalls
    \/ \E index \in RemoveIndices(accountManagerInstance) :
          RemoveAccountCap(index) /\ Working /\ HistManager /\ UNCHANGED managerCalls
    \/ \E seeds \in SeedLists(nextOid) :
          PersistAccounts(seeds) /\ Working /\ HistManager /\ UNCHANGED managerCalls

SpecCap == InitCap /\ [][NextCap]_vars

AddAccountStep == lastCall'.op = "addAccount"

\* C22: addAccount returns false and leaves the pool unchanged when the pool
\* holds 10 accounts, and otherwise appends exactly one account, with empty
\* rateLimitResetTimes and lastUsed = 0; a pool never holds more than 10
\* accounts.
C22_AtMostTenAccounts ==
    /\ [][AddAccountStep =>
            LET m == accountManagerInstance
                after == accountManagerInstance'
                n == Len(m.accounts)
            IN  IF n >= 10
                THEN lastCall'.ret = 0 /\ after = m
                ELSE /\ lastCall'.ret = 1
                     /\ Len(after.accounts) = n + 1
                     /\ SubSeq(after.accounts, 1, n) = m.accounts
                     /\ after.accounts[n + 1].rateLimitResetTimes = NoLimits
                     /\ after.accounts[n + 1].lastUsed = 0
                     /\ after.currentAccountIndex = m.currentAccountIndex
                     /\ after.rotationIndex = m.rotationIndex
       ]_vars
    /\ [](accountManagerInstance # NoManager =>
              Len(accountManagerInstance.accounts) <= 10)

\* addAccount has returned false on a pool of 10 accounts the last of which
\* was appended by addAccount
C22_Witness ==
    /\ lastCall.op = "addAccount"
    /\ lastCall.ret = 0
    /\ Len(accountManagerInstance.accounts) = 10
    /\ accountManagerInstance.accounts[10].oid > 10
    /\ accountManagerInstance.accounts[10].lastUsed = 0

RemoveAccountStep == lastCall'.op = "removeAccount"

\* C23: the account at position i of the pool has index = i, for every i in
\* [0, n - 1], whatever was constructed, added and removed; removeAccount with
\* an index out of range returns false and changes nothing.
C23_IndicesAreDense ==
    /\ [](accountManagerInstance # NoManager =>
              \A i \in DOMAIN accountManagerInstance.accounts :
                  accountManagerInstance.accounts[i].index = i - 1)
    /\ [][RemoveAccountStep =>
            LET m == accountManagerInstance
                index == lastCall'.arg
            IN  IF index < 0 \/ index > Len(m.accounts) - 1
                THEN lastCall'.ret = 0 /\ accountManagerInstance' = m
                ELSE /\ lastCall'.ret = 1
                     /\ Len(accountManagerInstance'.accounts) = Len(m.accounts) - 1
       ]_vars

\* the first account of a pool of 10 has been removed, the last of which had
\* been added
C23_Witness ==
    /\ lastCall.op = "removeAccount"
    /\ lastCall.ret = 1
    /\ lastCall.arg = 0
    /\ Len(accountManagerInstance.accounts) = MAX_ACCOUNTS - 1
    /\ accountManagerInstance.accounts[1].oid = 2
    /\ accountManagerInstance.accounts[MAX_ACCOUNTS - 1].oid > MAX_ACCOUNTS
    /\ accountManagerInstance.accounts[MAX_ACCOUNTS - 1].index = MAX_ACCOUNTS - 2

\* 0 <= index < len whenever len > 0
InRange(index, len) == len > 0 => 0 <= index /\ index < len

\* C24: whenever the pool is not empty, 0 <= currentAccountIndex <
\* len(accounts), whatever was constructed, selected, switched, added and
\* removed; the activeIndex save() writes satisfies the same bound.
C24_CurrentIndexInRange ==
    /\ accountManagerInstance # NoManager =>
          /\ InRange(accountManagerInstance.currentAccountIndex,
                     Len(accountManagerInstance.accounts))
          /\ InRange(save(accountManagerInstance, now).activeIndex,
                     Len(save(accountManagerInstance, now).accounts))
    /\ lastCall.op = "persist" =>
          InRange(file.activeIndex, Len(file.accounts))

\* the last account of a pool of 10 built with that account as the current
\* one has been removed, nothing having been selected or switched
C24_Witness ==
    /\ lastCall.op = "removeAccount"
    /\ lastCall.arg = MAX_ACCOUNTS - 1
    /\ loadAccountStorage(file).activeIndex = MAX_ACCOUNTS - 1
    /\ Len(accountManagerInstance.accounts) = MAX_ACCOUNTS - 1
    /\ accountManagerInstance.currentAccountIndex = MAX_ACCOUNTS - 2
    /\ \A i \in DOMAIN accountManagerInstance.accounts :
          /\ accountManagerInstance.accounts[i].lastUsed = 0
          /\ accountManagerInstance.accounts[i].lastSwitchReason = Undefined

(***************************************************************************)
(* Claims checked under SpecSelect on the selections that call             *)
(* getNextForFamily directly                                               *)
(***************************************************************************)
\* the positions, in pool order, of the accounts of m that satisfy P
Positions(m, P(_)) == {i \in DOMAIN m.accounts : P(m.accounts[i])}

\* the k-th smallest element of the set of positions S, k from 0
Nth(S, k) == CHOOSE i \in S : Cardinality({j \in S : j < i}) = k

\* the classes of C25, in the order of preference
Classes(m, family, t) ==
    LET eligible == Positions(m, LAMBDA a : Eligible(a, family, t))
    IN  << {i \in eligible : m.accounts[i].tier = "paid"
                             /\ m.accounts[i].hasAccess = "true"},
           {i \in eligible : m.accounts[i].hasAccess = "true"},
           {i \in eligible : m.accounts[i].tier = "paid"},
           eligible >>

NextForFamilyStep ==
    /\ lastCall'.op = "select"
    /\ lastCall'.mode = "round-robin"
    /\ Len(accountManagerInstance.accounts) > 1

\* C25: getNextForFamily picks from the first non-empty of the classes paid
\* and confirmed, confirmed, paid, eligible; it returns null exactly when no
\* account is eligible; the pick is class[rotationIndex mod |class|] and
\* rotationIndex then grows by 1; a free account is not returned while a paid
\* account with hasAccess = true is eligible.
C25_NextPicksFromFirstClass ==
    [][NextForFamilyStep =>
        LET m == accountManagerInstance
            classes == Classes(m, lastCall'.family, now)
            nonEmpty == {k \in 1..4 : classes[k] # {}}
            class == classes[Min(nonEmpty)]
            pick == Nth(class, m.rotationIndex % Cardinality(class))
        IN  /\ lastCall'.ret = NoOid <=> classes[4] = {}
            /\ classes[4] = {} =>
                   accountManagerInstance'.rotationIndex = m.rotationIndex
            /\ classes[4] # {} =>
                   /\ lastCall'.ret = m.accounts[pick].oid
                   /\ accountManagerInstance'.rotationIndex = m.rotationIndex + 1
                   /\ classes[1] # {} => Acct(m, lastCall'.ret).tier # "free"
    ]_vars

\* a selection made with rotationIndex > 0 has returned the second of two
\* free accounts with hasAccess = true while a paid account whose access is
\* not known is eligible
C25_Witness ==
    /\ lastCall.op = "select"
    /\ lastCall.mode = "round-robin"
    /\ lastCall.ret # NoOid
    /\ LET m == accountManagerInstance
           a == Acct(m, lastCall.ret)
       IN  /\ Len(m.accounts) = 3
           /\ a.tier = "free"
           /\ a.hasAccess = "true"
           /\ m.rotationIndex > 1
           /\ \E i \in DOMAIN m.accounts :
                 /\ i < PosOf(m, lastCall.ret)
                 /\ m.accounts[i].tier = "free"
                 /\ m.accounts[i].hasAccess = "true"
                 /\ Eligible(m.accounts[i], lastCall.family, now)
           /\ \E i \in DOMAIN m.accounts :
                 /\ m.accounts[i].tier = "paid"
                 /\ m.accounts[i].hasAccess = Undefined
                 /\ Eligible(m.accounts[i], lastCall.family, now)

\* the case of C26, on the pool m before a sticky selection for family: the
\* current account is not rate-limited, and it is paid or no other account is
\* both paid and eligible
StableCase(m, family, t) ==
    /\ getCurrentAccount(m) # NoOid
    /\ LET cur == Acct(m, getCurrentAccount(m))
       IN  /\ ~(cur.rateLimitResetTimes[family] # Absent
                /\ cur.rateLimitResetTimes[family] > t)
           /\ \/ cur.tier = "paid"
              \/ ~\E i \in DOMAIN m.accounts :
                    /\ m.accounts[i].oid # cur.oid
                    /\ m.accounts[i].tier = "paid"
                    /\ Eligible(m.accounts[i], family, t)

\* C26: in that case a sticky selection returns the current account and leaves
\* currentAccountIndex and rotationIndex unchanged, so that a second sticky
\* selection returns the same account.
C26_StickyKeepsCurrent ==
    [][StickySelectStep /\ StableCase(accountManagerInstance, lastCall'.family, now) =>
        LET m == accountManagerInstance
            after == accountManagerInstance'
        IN  /\ lastCall'.ret = getCurrentAccount(m)
            /\ after.currentAccountIndex = m.currentAccountIndex
            /\ after.rotationIndex = m.rotationIndex
            /\ selectAccountForFamily(after, lastCall'.family, "sticky", now).ret
                   = lastCall'.ret
    ]_vars

\* the run of session s is at the head of a retry attempt (attempt > 0 in the
\* loop's counting): getApiKeyForModel has been called and has not settled
InRetryHead(s) == run[s].pc = "acquire" /\ run[s].attempt > 1

BrokerFailures == {"RateLimitedAll", "RefreshFailed"}

ConcurrentTicks == 5

InitConcurrent ==
    /\ InitCommon
    /\ now = TickUnit
    /\ file = saveAccountStorage(
                  BrokerFile(2, [i \in 1..2 |-> Undefined], [i \in 1..2 |-> Absent],
                             [i \in 1..2 |-> TRUE], [i \in 1..2 |-> "fresh"], 0, now))

NextConcurrent ==
    \/ \E s \in Sessions :
          /\ \A q \in Sessions : q < s => run[q].pc # "idle"
          /\ RunStart(s, "google-antigravity", <<"claude", "sonnet">>)
          /\ Hist /\ UNCHANGED progress
    \/ /\ \E s \in Sessions : run[s].pc = "acquire"
       /\ GetManager(NoSeed) /\ Hist /\ UNCHANGED progress
    \/ \E s \in Sessions : RunBroker(s) /\ Hist /\ UNCHANGED progress
    \/ \E s \in Sessions : BrokerSaved(s) /\ Hist /\ UNCHANGED progress
    \/ \E s \in Sessions : RunAcquired(s, TRUE) /\ Hist /\ UNCHANGED progress
    \/ \E s \in Sessions : Watchdog(s) /\ Hist /\ UNCHANGED progress
    \/ \E s \in Sessions, promptError \in {NoError, <<"429", "too", "many", "requests">>} :
          PromptEnd(s, promptError) /\ Hist /\ UNCHANGED progress
    \/ \E s \in Sessions : RunMarkSaved(s) /\ Hist /\ UNCHANGED progress
    \/ /\ Tick(2 * TickUnit)
       /\ now' <= ConcurrentTicks * TickUnit
       /\ \A s \in Sessions : ~WatchdogDue(s)
       /\ Hist /\ UNCHANGED progress

SpecConcurrent == InitConcurrent /\ [][NextConcurrent]_vars

\* the attempt of session s, served by a pool account, ends with a failure
\* that marks (the activity timeout or a rate-limit error), while the file
\* names another account as the active one: a broker call of the other
\* session selected and saved it after the credential of s was served
MarksAfterOtherSelection(s) ==
    /\ run[s].pc = "prompt"
    /\ run[s].served # NoOid
    /\ run'[s].pc = "marking"
    /\ loadAccountStorage(file).activeIndex
           # Acct(accountManagerInstance, run[s].served).index

\* C28: the mark of a failed attempt is applied to the account that supplied
\* the attempt's credential, also when the other session's broker call has
\* selected and saved a different account in between: the account data the
\* mark starts from is the serving account's, and after the mark the serving
\* account of the pool is rate-limited for the family for 120 s.
C28_MarkGoesToServingAccount ==
    [][\A s \in Sessions : MarksAfterOtherSelection(s) =>
        LET f == getModelFamily(run[s].modelId)
            stored == loadAccountStorage(file)
            X == Acct(accountManagerInstance, run[s].served)
            after == Acct(accountManagerInstance', run[s].served)
        IN  /\ stored.accounts[stored.activeIndex + 1].refreshToken = X.refreshToken
            /\ IsSilentLimit(after.rateLimitResetTimes[f], now, now)
    ]_vars

(***************************************************************************)
(* SpecWatchdog: one session dispatches a request while the clock advances *)
(* in steps of half the checker's interval.  The interval timer of the     *)
(* activity checker is kept in nextCheckAt: its callback runs when it is   *)
(* due, before the clock moves on (timers that are not delayed by a busy   *)
(* event loop), and streaming events arrive at any time.                   *)
(***************************************************************************)
WatchTick == ANTIGRAVITY_ACTIVITY_CHECK_INTERVAL_MS \div 2

\* now stays <= WatchTicks * WatchTick
WatchTicks == 32

\* setInterval(..., ANTIGRAVITY_ACTIVITY_CHECK_INTERVAL_MS) when the attempt of
\* session s starts its prompt with the checker, clearInterval when the step
\* leaves no checker running
TimerOfChecker(s) ==
    nextCheckAt' = [nextCheckAt EXCEPT ![s] =
        IF run'[s].activityChecker # "armed" THEN Absent
        ELSE IF run[s].pc # "prompt" THEN now + ANTIGRAVITY_ACTIVITY_CHECK_INTERVAL_MS
        ELSE @]

CheckDue(s) == nextCheckAt[s] # Absent /\ nextCheckAt[s] <= now

\* the callback of the activity checker: it aborts the run when the stream
\* has been silent for more than 30 s, and is due again after the interval
ActivityCheck(s) ==
    /\ run[s].activityChecker = "armed"
    /\ CheckDue(s)
    /\ nextCheckAt' = [nextCheckAt EXCEPT ![s] = @ + ANTIGRAVITY_ACTIVITY_CHECK_INTERVAL_MS]
    /\ IF now - run[s].lastActivityAt > ANTIGRAVITY_ACTIVITY_TIMEOUT_MS
       THEN IF ~run[s].activityTimeoutError \/ run[s].abortCalls < MaxAborts
            THEN Watchdog(s)
            ELSE /\ lastCall' = Call("watchdog", "none", "none", run[s].served, s)
                 /\ UNCHANGED <<now, accountManagerInstance, file, nextOid, brk, run>>
       ELSE /\ lastCall' = Call("check", "none", "none", run[s].served, s)
            /\ UNCHANGED <<now, accountManagerInstance, file, nextOid, brk, run>>

HistWatchdog ==
    UNCHANGED <<markedUntil, maxMarkedUntil, rrHist, progress, managerCalls, waiters>>

InitWatchdog ==
    /\ InitCommon
    /\ now = 0
    /\ file = saveAccountStorage(
                  BrokerFile(1, <<Undefined>>, <<Absent>>, <<TRUE>>, <<"fresh">>, 0, now))

NextWatchdog ==
    \/ \E provider \in Providers :
          RunStart(1, provider, <<"claude", "sonnet">>)
              /\ HistWatchdog /\ UNCHANGED nextCheckAt
    \/ /\ run[1].pc = "acquire"
       /\ GetManager(NoSeed) /\ HistWatchdog /\ UNCHANGED nextCheckAt
    \/ RunBroker(1) /\ HistWatchdog /\ UNCHANGED nextCheckAt
    \/ BrokerSaved(1) /\ HistWatchdog /\ UNCHANGED nextCheckAt
    \/ RunAcquired(1, TRUE) /\ HistWatchdog /\ TimerOfChecker(1)
    \/ RunAcquiredOther(1, TRUE) /\ HistWatchdog /\ TimerOfChecker(1)
    \/ Activity(1) /\ HistWatchdog /\ UNCHANGED nextCheckAt
    \/ ActivityCheck(1) /\ HistWatchdog
    \/ PromptEnd(1, NoError) /\ HistWatchdog /\ TimerOfChecker(1)
    \/ RunMarkSaved(1) /\ HistWatchdog /\ TimerOfChecker(1)
    \/ /\ Tick(WatchTick)
       /\ now' <= WatchTicks * WatchTick
       /\ \A s \in Sessions : ~CheckDue(s)
       /\ HistWatchdog /\ UNCHANGED nextCheckAt

SpecWatchdog == InitWatchdog /\ [][NextWatchdog]_vars

\* the callback of the checker of session s has just run
CheckStep(s) == lastCall'.op \in {"check", "watchdog"} /\ lastCall'.arg = s

\* C29: the activity checker runs only for google-antigravity; while it runs it
\* is due every 5 s; it raises the activity timeout only when more than 30 s
\* have passed since the last activity, so never while the gaps between
\* activity events are at most 30 s; and while the prompt runs in silence the
\* timeout has been raised once 35 s have passed since the last activity.
C29_WatchdogWithinBounds ==
    /\ [](\A s \in Sessions :
            /\ run[s].activityChecker = "armed" =>
                  /\ run[s].provider = "google-antigravity"
                  /\ nextCheckAt[s] >= now
                  /\ nextCheckAt[s] <= now + 5000
            /\ run[s].provider # "google-antigravity" =>
                  nextCheckAt[s] = Absent /\ ~run[s].activityTimeoutError
            /\ (run[s].pc = "prompt" /\ run[s].provider = "google-antigravity") =>
                  /\ run[s].activityChecker = "armed"
                  /\ ~run[s].activityTimeoutError =>
                        now - run[s].lastActivityAt <= 35000)
    /\ [][\A s \in Sessions :
            /\ CheckStep(s) => nextCheckAt'[s] = nextCheckAt[s] + 5000
            /\ (~run[s].activityTimeoutError /\ run'[s].activityTimeoutError) =>
                  /\ CheckStep(s)
                  /\ now - run[s].lastActivityAt > 30000
       ]_vars

\* after a streaming event and 35 s of silence the checker has just raised
\* the timeout
C29_Witness ==
    /\ run[1].pc = "prompt"
    /\ run[1].activityTimeoutError
    /\ lastCall.op = "watchdog"
    /\ run[1].lastActivityAt > 0
    /\ now - run[1].lastActivityAt = 35000

\* the account is rate-limited for the family at time t
Limited(a, family, t) ==
    a.rateLimitResetTimes[family] # Absent /\ a.rateLimitResetTimes[family] > t

\* what C30 says of the wait returned for the pool m
MinWaitAsStated(m, family, t) ==
    LET wait == getMinWaitTimeForFamily(m, family, t).ret
    IN  /\ wait >= 0
        /\ IF \/ Len(m.accounts) = 0
              \/ \E i \in DOMAIN m.accounts : ~Limited(m.accounts[i], family, t)
           THEN wait = 0
           ELSE /\ \E i \in DOMAIN m.accounts :
                      wait = m.accounts[i].rateLimitResetTimes[family] - t
                /\ \A i \in DOMAIN m.accounts :
                      wait <= m.accounts[i].rateLimitResetTimes[family] - t

\* C30: getMinWaitTimeForFamily returns 0 for the empty pool and for a pool
\* with an account that is not rate-limited for the family; otherwise it
\* returns the least of the accounts' reset times minus now; it is never
\* negative.
C30_MinWaitIsEarliestReset ==
    \A f \in Families :
        /\ MinWaitAsStated(NewManager(NoSeed, NoFile, now, nextOid), f, now)
        /\ accountManagerInstance # NoManager =>
               MinWaitAsStated(accountManagerInstance, f, now)

\* both accounts of the pool are rate-limited for claude, until different
\* times, and the wait is the time to the earlier one
C30_Witness ==
    /\ accountManagerInstance # NoManager
    /\ Len(accountManagerInstance.accounts) = 2
    /\ LET m == accountManagerInstance
           r1 == m.accounts[1].rateLimitResetTimes["claude"]
           r2 == m.accounts[2].rateLimitResetTimes["claude"]
       IN  /\ Limited(m.accounts[1], "claude", now)
           /\ Limited(m.accounts[2], "claude", now)
           /\ r2 < r1
           /\ getMinWaitTimeForFamily(m, "claude", now).ret = r2 - now
    /\ Len(NewManager(NoSeed, NoFile, now, nextOid).accounts) = 0

\* the pool m holds no rate-limit entry that has expired at time t
NoExpiredEntries(m, t) ==
    \A i \in DOMAIN m.accounts : \A f \in Families :
        LET resetTime == m.accounts[i].rateLimitResetTimes[f]
        IN  resetTime = Absent \/ resetTime > t

\* C31: after a selection, in sticky or in round-robin mode, no account of the
\* pool holds a rate-limit entry whose reset time is <= now.
C31_SelectionPrunesExpired ==
    lastCall.op = "select" => NoExpiredEntries(accountManagerInstance, now)

\* the pool m without its rate-limit entries whose reset time is <= t
WithoutExpired(m, t) ==
    [m EXCEPT !.accounts = [i \in DOMAIN @ |->
        [@[i] EXCEPT !.rateLimitResetTimes = [f \in Families |->
            IF @[f] # Absent /\ @[f] <= t THEN Absent ELSE @[f]]]]]

\* C32: pools that differ only in rate-limit entries with reset time <= now
\* give the same selection (account returned and cursors) and the same wait,
\* for every family and both modes: each pool gives what the pool without
\* those entries gives.
C32_ExpiredIsAbsent ==
    accountManagerInstance # NoManager =>
        LET m == accountManagerInstance
            bare == WithoutExpired(m, now)
        IN  \A f \in Families :
                /\ \A mode \in Modes :
                      LET a == selectAccountForFamily(m, f, mode, now)
                          b == selectAccountForFamily(bare, f, mode, now)
                      IN  /\ a.ret = b.ret
                          /\ a.m.currentAccountIndex = b.m.currentAccountIndex
                          /\ a.m.rotationIndex = b.m.rotationIndex
                /\ getMinWaitTimeForFamily(m, f, now).ret
                       = getMinWaitTimeForFamily(bare, f, now).ret

\* an account whose entry for claude expires exactly now is the one a
\* round-robin selection for claude returns
C32_Witness ==
    /\ accountManagerInstance # NoManager
    /\ Len(accountManagerInstance.accounts) > 1
    /\ LET m == accountManagerInstance
           sel == selectAccountForFamily(m, "claude", "round-robin", now)
       IN  /\ sel.ret # NoOid
           /\ Acct(m, sel.ret).rateLimitResetTimes["claude"] = now
           /\ \E i \in DOMAIN m.accounts :
                 m.accounts[i].rateLimitResetTimes["claude"] > now

\* the accounts of the file f, or none when it cannot be loaded
StoredAccounts(f) ==
    IF loadAccountStorage(f) = NoFile THEN <<>> ELSE loadAccountStorage(f).accounts

\* C33: an account that save() has stored keeps its addedAt in the file over
\* every later step (selections, updates, saves, rebuilds).  The files a
\* process starts from carry addedAt = 0, which save() never writes, so
\* addedAt # 0 tells the accounts that save() has stored.
C33_AddedAtIsStable ==
    [][\A i \in DOMAIN StoredAccounts(file), j \in DOMAIN StoredAccounts(file') :
          LET before == StoredAccounts(file)[i]
              after == StoredAccounts(file')[j]
          IN  (before.refreshToken = after.refreshToken /\ before.addedAt # 0)
                  => after.addedAt = before.addedAt
    ]_vars

(***************************************************************************)
(* refreshAccountToken.  A response is what refreshAntigravityToken does   *)
(* for the account: it throws, or it answers after a delay with null, with *)
(* a value that has no access token, or with a new token and its expiry.   *)
(***************************************************************************)
NoToken == [access |-> NoAccess, expires |-> Absent]

ResponseDelays == {1000, 20000}

Responses(account, t) ==
    {[kind |-> k, delay |-> d,
      access |-> IF k = "token" THEN Token(account.refreshToken, t + TokenLifetime)
                 ELSE NoAccess,
      expires |-> IF k \in {"token", "noAccess"} THEN t + TokenLifetime ELSE Absent] :
        k \in {"throws", "null", "noAccess", "token"}, d \in ResponseDelays}

\* a race the timer never wins
withTimeoutNever(response, ms) == response

\* withTimeout(promise, ms, errorMessage): the promise, or the rejection of the
\* timer when the promise has not settled after ms
withTimeout(response, ms) ==
    IF response.delay < ms THEN response
    ELSE [response EXCEPT !.kind = "throws", !.access = NoAccess, !.expires = Absent]

\* refreshAccountToken(account) given the response of the endpoint: what it
\* returns, whether it raises, whether it called the endpoint, and the account
\* as it leaves it
refreshAccountToken(account, response) ==
    IF account.refreshToken = Undefined \/ account.projectId = Undefined
    THEN [ret |-> NoToken, raised |-> FALSE, called |-> FALSE, account |-> account]
    ELSE LET result == withTimeout(response, TOKEN_REFRESH_TIMEOUT_MS)
         IN  IF result.kind = "throws"
             THEN [ret |-> NoToken, raised |-> FALSE, called |-> TRUE, account |-> account]
             ELSE IF result.kind # "null" /\ result.access # NoAccess
             THEN [ret |-> [access |-> result.access, expires |-> result.expires],
                   raised |-> FALSE, called |-> TRUE, account |-> account]
             ELSE [ret |-> NoToken, raised |-> FALSE, called |-> TRUE, account |-> account]

\* the refresh the broker call of session s awaits settles with the endpoint's
\* response
RefreshAnswered(s, response) ==
    /\ brk[s].pc \in {"refresh", "refreshNext"}
    /\ LET oid == IF brk[s].pc = "refresh" THEN brk[s].account ELSE brk[s].nextAccount
           account == Acct(accountManagerInstance, oid)
       IN  /\ response \in Responses(account, now)
           /\ RefreshDone(s, refreshAccountToken(account, response).ret # NoToken)

(***************************************************************************)
(* SpecRefresh: one broker call on a pool of one or two accounts whose     *)
(* tokens are fresh, expired or missing and which have a project or not;   *)
(* the endpoint responds in every way.                                     *)
(***************************************************************************)
InitRefresh ==
    /\ InitCommon
    /\ now = TickUnit
    /\ \E n \in {1, 2} :
          IsBrokerFile(file, n, {Undefined}, {Absent}, {"fresh", "expired", "missing"}, now)

NextRefresh ==
    \/ GetManager(NoSeed) /\ Hist /\ UNCHANGED progress
    \/ BrokerStart(1, <<"claude", "sonnet">>) /\ Hist /\ UNCHANGED progress
    \/ \E kind \in {"throws", "null", "noAccess", "token"}, delay \in ResponseDelays :
          /\ \E response \in UNION {Responses(accountManagerInstance.accounts[i], now) :
                                       i \in IF accountManagerInstance = NoManager THEN {}
                                             ELSE DOMAIN accountManagerInstance.accounts} :
                /\ response.kind = kind /\ response.delay = delay
                /\ RefreshAnswered(1, response)
          /\ Hist /\ UNCHANGED progress
    \/ BrokerSaved(1) /\ Hist /\ UNCHANGED progress

SpecRefresh == InitRefresh /\ [][NextRefresh]_vars

\* the accounts refreshAccountToken is checked on: those of the pool, and
\* those without their refresh token
RefreshInputs(m) ==
    UNION {{m.accounts[i], [m.accounts[i] EXCEPT !.refreshToken = Undefined]} :
              i \in DOMAIN m.accounts}

PersistStep == lastCall'.op = "persist"

\* the pool as it is before a call that obtains the manager without a seed of
\* its own: the singleton, or what the file holds
PoolBefore ==
    IF accountManagerInstance # NoManager THEN accountManagerInstance
    ELSE NewManager(NoSeed, loadAccountStorage(file), now, nextOid)

Holders(m, refreshToken) ==
    {i \in DOMAIN m.accounts : m.accounts[i].refreshToken = refreshToken}

SeedTokens(seeds) == {seeds[k].refresh : k \in DOMAIN seeds}

NewTokens(m, seeds) == {rt \in SeedTokens(seeds) : Holders(m, rt) = {}}

\* what C35 and its amendment share: accounts stay in place with their refresh
\* token, a seed whose token is held updates its holder, no token unique
\* before is held twice, and the pool is saved
ReconciledInPlace(before, after, seeds, f) ==
    /\ Len(after.accounts) >= Len(before.accounts)
    /\ \A i \in DOMAIN before.accounts :
          /\ after.accounts[i].refreshToken = before.accounts[i].refreshToken
          /\ after.accounts[i].oid = before.accounts[i].oid
          /\ \A k \in DOMAIN seeds :
                seeds[k].refresh = before.accounts[i].refreshToken
                    => after.accounts[i].tier = seeds[k].tier
    /\ \A i \in DOMAIN after.accounts :
          LET rt == after.accounts[i].refreshToken
          IN  Cardinality(Holders(before, rt)) <= 1
                  => Cardinality(Holders(after, rt)) = 1
    /\ Len(StoredAccounts(f)) = Len(after.accounts)
    /\ \A i \in DOMAIN after.accounts :
          /\ StoredAccounts(f)[i].refreshToken = after.accounts[i].refreshToken
          /\ StoredAccounts(f)[i].tier = after.accounts[i].tier
    /\ loadAccountStorage(f).activeIndex = after.currentAccountIndex

\* C35 as claimed: persistAntigravityAccounts updates in place the account
\* that holds a seed's refresh token, adds one account for every seed with a
\* new refresh token, leaves no token that was unique held by two accounts,
\* makes the holder of the first seed's token the current account, and saves.
C35_PersistReconciles ==
    [][PersistStep =>
        LET seeds == lastCall'.arg
            before == PoolBefore
            after == accountManagerInstance'
        IN  /\ ReconciledInPlace(before, after, seeds, file')
            /\ Len(after.accounts)
                   = Len(before.accounts) + Cardinality(NewTokens(before, seeds))
            /\ getCurrentAccount(after) # NoOid
            /\ Acct(after, getCurrentAccount(after)).refreshToken = seeds[1].refresh
    ]_vars

\* C35 as amended: a seed with a new refresh token adds one account while the
\* pool holds fewer than MAX_ACCOUNTS accounts and is dropped otherwise; the
\* current account is the holder of the first seed's token when the pool holds
\* that token afterwards, and stays the one it was otherwise.
C35_PersistReconcilesUpToCap ==
    [][PersistStep =>
        LET seeds == lastCall'.arg
            before == PoolBefore
            after == accountManagerInstance'
        IN  /\ ReconciledInPlace(before, after, seeds, file')
            /\ Len(after.accounts)
                   = Min({Len(before.accounts) + Cardinality(NewTokens(before, seeds)),
                          MAX_ACCOUNTS})
            /\ IF Holders(after, seeds[1].refresh) # {}
               THEN /\ getCurrentAccount(after) # NoOid
                    /\ Acct(after, getCurrentAccount(after)).refreshToken
                           = seeds[1].refresh
               ELSE after.currentAccountIndex = before.currentAccountIndex
    ]_vars

\* a new seed and the seed of a stored account were persisted on a full pool:
\* the new one was dropped, the stored account was updated
C35_Witness ==
    /\ lastCall.op = "persist"
    /\ Len(lastCall.arg) = 2
    /\ Len(accountManagerInstance.accounts) = MAX_ACCOUNTS
    /\ Holders(accountManagerInstance, lastCall.arg[1].refresh) = {}
    /\ accountManagerInstance.accounts[1].tier = "paid"
    /\ StoredAccounts(file)[1].tier = "paid"

\* C36: removeAccount(j) with j different from currentAccountIndex leaves the
\* current account the same account object, with the same refresh token.
C36_RemoveKeepsCurrent ==
    [][(RemoveAccountStep /\ lastCall'.ret = 1
            /\ lastCall'.arg # accountManagerInstance.currentAccountIndex) =>
        LET m == accountManagerInstance
            after == accountManagerInstance'
        IN  /\ getCurrentAccount(after) = getCurrentAccount(m)
            /\ Acct(after, getCurrentAccount(after)).refreshToken
                   = Acct(m, getCurrentAccount(m)).refreshToken
    ]_vars

(***************************************************************************)
(* SpecLogin: the accounts file starts absent; logins are stored by the    *)
(* add command of the CLI and by persistAntigravityAccounts, each in a     *)
(* process that ends afterwards or goes on to the next login.              *)
(***************************************************************************)
LoginOid == 5           \* account objects ever created by the logins

\* the credentials loginAntigravityWithTier returns for account k
Credentials(k, email, tier) ==
    [refresh |-> RefreshTokens[k], projectId |-> ProjectIds[k],
     access |-> Token(RefreshTokens[k], FarFuture), expires |-> FarFuture,
     email |-> email, tier |-> tier]

LoginEmails == {Undefined, "a@x"}

LoginCredentials ==
    {Credentials(k, email, tier) : k \in 1..2, email \in LoginEmails, tier \in {"paid"}}

\* the seeds of a login that persistAntigravityAccounts is called with: one
\* account without email, with the tokens of the login or without them
LoginSeeds ==
    {<<[Credentials(k, Undefined, "paid")
            EXCEPT !.access = IF tokens THEN @ ELSE NoAccess,
                   !.expires = IF tokens THEN @ ELSE Absent]>> :
        k \in 1..2, tokens \in BOOLEAN}

\* existingAccounts.some((a) => a.email === creds.email && creds.email)
alreadyExists(m, creds) ==
    \E i \in DOMAIN m.accounts :
        m.accounts[i].email = creds.email /\ creds.email # Undefined

\* antigravityAccountsAddCommand from the credentials of the login to the
\* return: the pool it leaves and whether it saved it
antigravityAccountsAddCommand(m, creds, oid) ==
    IF alreadyExists(m, creds) THEN [m |-> m, saved |-> FALSE, oid |-> oid]
    ELSE IF Len(m.accounts) > 0
    THEN LET r == addAccount(m, creds.refresh, creds.projectId, creds.access,
                             creds.expires, creds.email, creds.tier, oid)
         IN  [m |-> r.m, saved |-> TRUE, oid |-> IF r.ret THEN oid + 1 ELSE oid]
    ELSE [m |-> m, saved |-> TRUE, oid |-> oid]

\* the add command of the CLI, after a login that returned creds
AddCommand(creds) ==
    /\ LET r == antigravityAccountsAddCommand(getAntigravityAccountManager(creds),
                                              creds, nextOid + OidsCreated(creds))
       IN  /\ r.oid <= LoginOid + 1
           /\ accountManagerInstance' = r.m
           /\ nextOid' = r.oid
           /\ file' = IF r.saved THEN Written(Snapshot(r.m, now), r.m) ELSE file
           /\ lastCall' = Call("add", "none", "none", IF r.saved THEN 1 ELSE 0, creds)
    /\ UNCHANGED <<now, brk, run>>

InitLogin ==
    /\ InitCommon
    /\ now = TickUnit
    /\ file = NoFile

NextLogin ==
    \/ \E creds \in LoginCredentials : AddCommand(creds) /\ HistManager /\ UNCHANGED managerCalls
    \/ \E seeds \in LoginSeeds :
          /\ PersistAccounts(seeds)
          /\ nextOid' <= LoginOid + 1
          /\ HistManager /\ UNCHANGED managerCalls
    \/ resetAntigravityAccountManager /\ HistManager

SpecLogin == InitLogin /\ [][NextLogin]_vars

\* the access token and the expiry of the account are those issued for its
\* refreshToken, or it has none
OwnCredentials(acc) ==
    /\ acc.access # NoAccess => acc.access[1] = acc.refreshToken
    /\ acc.expires # Absent => acc.access # NoAccess /\ acc.access[2] = acc.expires

\* C37: in every reachable pool state the access token and the expiry of each
\* account were issued for the refreshToken of that account; building the
\* pool never gives the tokens of the seed to a stored account of another
\* refreshToken.
C37_TokensBelongToAccount ==
    accountManagerInstance # NoManager =>
        \A i \in DOMAIN accountManagerInstance.accounts :
            OwnCredentials(accountManagerInstance.accounts[i])

\* a step of the add command
AddCommandStep == \E creds \in LoginCredentials : AddCommand(creds)

\* the accounts stored before a command: those of the pool of the process,
\* or of the file where the process has no pool yet
AccountsBefore ==
    IF accountManagerInstance # NoManager THEN accountManagerInstance.accounts
    ELSE IF loadAccountStorage(file) = NoFile THEN <<>>
    ELSE loadAccountStorage(file).accounts

\* the refreshTokens that two accounts of the list share
SharedTokens(accounts) ==
    {accounts[i].refreshToken : i \in {i \in DOMAIN accounts :
        \E j \in DOMAIN accounts : j # i /\ accounts[j].refreshToken = accounts[i].refreshToken}}

\* the one account of the list carries refreshToken, email and tier of creds
OnlyAccountOf(accounts, creds) ==
    /\ Len(accounts) = 1
    /\ accounts[1].refreshToken = creds.refresh
    /\ accounts[1].email = creds.email
    /\ accounts[1].tier = creds.tier

\* C38: the add command, run when no accounts are stored, leaves the pool and
\* the saved file with exactly one account, which carries refreshToken, email
\* and tier of the new credentials; and in any state the add command never
\* produces two accounts with the same refreshToken.
C38_AddCommandStoresOneAccount ==
    [][AddCommandStep =>
         /\ Len(AccountsBefore) = 0 =>
               /\ OnlyAccountOf(accountManagerInstance'.accounts, lastCall'.arg)
               /\ file' # NoFile
               /\ OnlyAccountOf(loadAccountStorage(file').accounts, lastCall'.arg)
         /\ SharedTokens(accountManagerInstance'.accounts) \subseteq
                SharedTokens(AccountsBefore)]_vars

(***************************************************************************)
(* SpecAttempt: one session dispatches a request on a pool of two accounts *)
(* while the clock advances.  After session.prompt has settled the attempt *)
(* awaits waitForCompactionRetry and a deferred compaction before its      *)
(* finally; the activity checker runs until that finally.  Another caller  *)
(* waits for the end of the run with waitForEmbeddedPiRunEnd.              *)
(***************************************************************************)
AttemptTicks == 5       \* now stays <= AttemptTicks * TickUnit

\* ACTIVE_EMBEDDED_RUNS.has(sessionId): the entry is set when the attempt has
\* its session and deleted in the finally of the attempt
isEmbeddedPiRunActive(s) == run[s].pc \in {"prompt", "compaction"}

\* session.prompt settles, with promptError or without, and the attempt
\* awaits waitForCompactionRetry() or session.compact()
PromptSettles(s, promptError) ==
    /\ run[s].pc = "prompt"
    /\ run' = [run EXCEPT ![s].pc = "compaction", ![s].promptError = promptError]
    /\ lastCall' = Call("promptSettled", "none", "none", run[s].served, s)
    /\ UNCHANGED <<now, accountManagerInstance, file, nextOid, brk>>

\* onActivity while the attempt awaits the compaction
CompactionActivity(s) ==
    /\ run[s].pc = "compaction"
    /\ ~run[s].aborted
    /\ run[s].lastActivityAt # now
    /\ run' = [run EXCEPT ![s].lastActivityAt = now]
    /\ lastCall' = Call("activity", "none", "none", NoOid, s)
    /\ UNCHANGED <<now, accountManagerInstance, file, nextOid, brk>>

\* the awaits after the prompt settle: the finally and the rest of the attempt
CompactionEnd(s) ==
    /\ run[s].pc = "compaction"
    /\ AttemptEnd(s, run[s].promptError)

\* notifyEmbeddedRunEnded(sessionId)
notifyEmbeddedRunEnded(w) ==
    IF ~w.registered THEN w
    ELSE [w EXCEPT !.registered = FALSE, !.timer = "cleared",
                   !.resolved = Append(@, TRUE)]

\* the finally of the attempt deletes the entry of ACTIVE_EMBEDDED_RUNS and
\* calls notifyEmbeddedRunEnded
NotifyRunEnded(s) ==
    waiters' = [waiters EXCEPT ![s] =
        IF isEmbeddedPiRunActive(s) /\ run'[s].pc \notin {"prompt", "compaction"}
        THEN notifyEmbeddedRunEnded(@) ELSE @]

\* waitForEmbeddedPiRunEnd(sessionId, timeoutMs), called once per session
waitForEmbeddedPiRunEnd(s) ==
    /\ waiters[s] = NoWaiter
    /\ run[s].pc # "idle"
    /\ waiters' = [waiters EXCEPT ![s] =
           IF ~isEmbeddedPiRunActive(s) THEN [@ EXCEPT !.resolved = <<TRUE>>]
           ELSE [@ EXCEPT !.registered = TRUE, !.timer = "armed"]]
    /\ lastCall' = Call("waitForRunEnd", "none", "none", NoOid, s)
    /\ UNCHANGED <<now, accountManagerInstance, file, nextOid, brk, run>>

\* the timeout of the waiter expires
WaiterTimeout(s) ==
    /\ waiters[s].timer = "armed"
    /\ waiters' = [waiters EXCEPT ![s] =
           [@ EXCEPT !.registered = FALSE, !.timer = "fired",
                     !.resolved = Append(@, FALSE)]]
    /\ lastCall' = Call("waiterTimeout", "none", "none", NoOid, s)
    /\ UNCHANGED <<now, accountManagerInstance, file, nextOid, brk, run>>

HistAttempt ==
    UNCHANGED <<markedUntil, maxMarkedUntil, rrHist, progress, managerCalls, nextCheckAt>>

InitAttempt ==
    /\ InitCommon
    /\ now = TickUnit
    /\ file = saveAccountStorage(
                  BrokerFile(2, <<Undefined, Undefined>>, <<Absent, Absent>>,
                             <<TRUE, TRUE>>, <<"fresh", "fresh">>, 0, now))

NextAttempt ==
    \/ \E provider \in Providers :
          RunStart(1, provider, <<"claude", "sonnet">>)
              /\ HistAttempt /\ UNCHANGED waiters
    \/ /\ run[1].pc = "acquire"
       /\ GetManager(NoSeed) /\ HistAttempt /\ UNCHANGED waiters
    \/ RunBroker(1) /\ HistAttempt /\ UNCHANGED waiters
    \/ BrokerSaved(1) /\ HistAttempt /\ UNCHANGED waiters
    \/ RunAcquired(1, TRUE) /\ HistAttempt /\ UNCHANGED waiters
    \/ RunAcquiredOther(1, TRUE) /\ HistAttempt /\ UNCHANGED waiters
    \/ Activity(1) /\ HistAttempt /\ UNCHANGED waiters
    \/ \E promptError \in PromptErrors :
          PromptSettles(1, promptError) /\ HistAttempt /\ UNCHANGED waiters
    \/ CompactionActivity(1) /\ HistAttempt /\ UNCHANGED waiters
    \/ Watchdog(1) /\ HistAttempt /\ UNCHANGED waiters
    \/ CompactionEnd(1) /\ HistAttempt /\ NotifyRunEnded(1)
    \/ RunMarkSaved(1) /\ HistAttempt /\ UNCHANGED waiters
    \/ waitForEmbeddedPiRunEnd(1) /\ HistAttempt
    \/ WaiterTimeout(1) /\ HistAttempt
    \/ /\ Tick(2 * TickUnit)
       /\ now' <= AttemptTicks * TickUnit
       /\ ~WatchdogDue(1)
       /\ HistAttempt /\ UNCHANGED waiters

SpecAttempt == InitAttempt /\ [][NextAttempt]_vars

\* the prompt call of the attempt of session s has completed without error
\* and no silence of more than 30 s has been found
PromptCompleted(s) ==
    /\ run[s].pc = "compaction"
    /\ run[s].promptError = NoError
    /\ ~run[s].activityTimeoutError
    /\ ~run[s].aborted

\* C39: an attempt is retried only when the model request itself stalled: once
\* its prompt call has completed without error before 30 s of silence, no
\* ActivityTimeout is raised, nothing is marked rate-limited, the prompt is
\* not sent again and the attempt returns its result.
C39_NoTimeoutAfterPrompt ==
    [][\A s \in Sessions : PromptCompleted(s) =>
          /\ ~run'[s].activityTimeoutError
          /\ run'[s].attempt = run[s].attempt
          /\ accountManagerInstance' = accountManagerInstance
          /\ run'[s].pc \in {"compaction", "done"}
          /\ run'[s].pc = "done" => run'[s].outcome = "returned"]_vars

\* the run of session s has ended for good: it has returned or raised after
\* its last attempt
EndedForGood(r) == r.pc = "done"

\* the run of session s has started its first attempt and not yet ended
InProgress(r) == r.attempt >= 1 /\ r.pc \notin {"idle", "done"}

\* C40: a waiter registered with waitForEmbeddedPiRunEnd(sessionId) is
\* resolved at most once, and once the run has ended; with true only when
\* the run of the session has ended for good, retries included, or with false
\* by its timeout; from the start of the first attempt to that final outcome
\* isEmbeddedPiRunActive(sessionId) is true, and afterwards no entry and no
\* waiter of the session remain registered.
C40_WaiterResolvedAtRunEnd ==
    /\ [](\A s \in Sessions :
            /\ Len(waiters[s].resolved) <= 1
            /\ waiters[s].registered => waiters[s].resolved = <<>>
            /\ InProgress(run[s]) => isEmbeddedPiRunActive(s)
            /\ EndedForGood(run[s]) =>
                  ~isEmbeddedPiRunActive(s) /\ ~waiters[s].registered)
    /\ [][\A s \in Sessions :
            (waiters[s].registered /\ waiters'[s].resolved = <<TRUE>>)
                => EndedForGood(run'[s])]_vars

============================================================================
